---- MODULE Spec2Model ----
EXTENDS Integers, Sequences, FiniteSets, TLC

(***************************************************************************)
(* Nadecon background core (src/background.js): header probe cache, media  *)
(* classification, filename derivation, URL canonicalisation, session      *)
(* registry, liveness cache and download router.                           *)
(*                                                                         *)
(* A JavaScript string is a sequence of one-character strings, so that     *)
(* startsWith / includes / split / replace are computed, not assumed.      *)
(***************************************************************************)

\* ------------------------------------------------------------------ bounds
\* candidate submissions (addMediaUrl calls) in a run
MaxTasks == 2
\* intercepted downloads (cancelled responses and smart-download requests) in a run
MaxDownloads == 1
\* checkLocalhostStatus requests waiting at one time
MaxStatusChecks == 1
\* steps of the clock
MaxTicks == 2
\* messages of the options page waiting for the background script
MaxInbox == 1
\* canonicalisations of one URL in a row
MaxPasses == 2

\* a local constant of the code (const x = v; ... x ...): F applied to the value
\* of v, which is computed once
Bind(v, F(_)) == CHOOSE r \in {F(x) : x \in {v}} : TRUE

\* ------------------------------------------------------------ JS values
\* null (an absent header): a one-element sequence no string can equal,
\* because every element of a string is a single character.
Null == <<"null">>
\* a JS value used as a condition: null and the empty string are falsy
Truthy(s) == s # Null /\ s # <<>>
\* contentLength: null, and parseInt's NaN
NoLength == 0 - 1
NaN == 0 - 2

\* ------------------------------------------------------- string helpers
\* String.prototype.startsWith
StartsWith(s, p) == Len(s) >= Len(p) /\ SubSeq(s, 1, Len(p)) = p

\* String.prototype.indexOf(p, from), 1-based; 0 when p does not occur
IndexFrom(s, p, from) ==
  Bind({i \in from..(Len(s) - Len(p) + 1) : SubSeq(s, i, i + Len(p) - 1) = p}, LAMBDA C :
    IF C = {} THEN 0 ELSE CHOOSE i \in C : \A j \in C : i <= j)

\* String.prototype.includes
Includes(s, p) == IndexFrom(s, p, 1) # 0

\* String.prototype.lastIndexOf for one character, 1-based; 0 when absent
LastIndexOf(s, c) ==
  Bind({i \in 1..Len(s) : s[i] = c}, LAMBDA C :
    IF C = {} THEN 0 ELSE CHOOSE i \in C : \A j \in C : j <= i)

UpperChars == <<"A","B","C","D","E","F","G","H","I","J","K","L","M","N","O","P","Q","R","S","T","U","V","W","X","Y","Z">>
LowerChars == <<"a","b","c","d","e","f","g","h","i","j","k","l","m","n","o","p","q","r","s","t","u","v","w","x","y","z">>
LowerChar(c) ==
  IF \E i \in 1..Len(UpperChars) : UpperChars[i] = c
  THEN LowerChars[CHOOSE i \in 1..Len(UpperChars) : UpperChars[i] = c]
  ELSE c
\* String.prototype.toLowerCase (ASCII letters)
ToLower(s) == [i \in 1..Len(s) |-> LowerChar(s[i])]

\* String.prototype.split(c) for a one-character separator
RECURSIVE Split(_, _)
Split(s, c) ==
  Bind(IndexFrom(s, <<c>>, 1), LAMBDA i :
    IF i = 0 THEN <<s>>
    ELSE <<SubSeq(s, 1, i - 1)>> \o Split(SubSeq(s, i + 1, Len(s)), c))

\* Array.prototype.pop's value: the last element
Last(q) == q[Len(q)]

IsSpace(c) == c \in {" ", "\t"}
\* String.prototype.trim
RECURSIVE Trim(_)
Trim(s) ==
  IF Len(s) = 0 THEN s
  ELSE IF IsSpace(s[1]) THEN Trim(Tail(s))
  ELSE IF IsSpace(s[Len(s)]) THEN Trim(SubSeq(s, 1, Len(s) - 1))
  ELSE s

Digits == <<"0","1","2","3","4","5","6","7","8","9">>
IsDigit(c) == \E i \in 1..Len(Digits) : Digits[i] = c
DigitVal(c) == (CHOOSE i \in 1..Len(Digits) : Digits[i] = c) - 1
\* parseInt(s, 10) on an unsigned header value: the leading digits, NaN if none
RECURSIVE ParseDigits(_, _)
ParseDigits(s, acc) ==
  IF Len(s) = 0 \/ ~IsDigit(s[1]) THEN acc
  ELSE ParseDigits(Tail(s), 10 * acc + DigitVal(s[1]))
ParseInt(s) ==
  Bind(Trim(s), LAMBDA t : IF Len(t) = 0 \/ ~IsDigit(t[1]) THEN NaN ELSE ParseDigits(t, 0))

\* ------------------------------------------------- fetchMediaHeaders (pure part)
\* the media test of fetchMediaHeaders: contentType && (startsWith ... || includes ...)
isMediaNoManifest(contentType) ==
  /\ Truthy(contentType)
  /\ \/ StartsWith(contentType, <<"v","i","d","e","o","/">>)
     \/ StartsWith(contentType, <<"a","u","d","i","o","/">>)
     \/ StartsWith(contentType, <<"i","m","a","g","e","/","g","i","f">>)
     \/ Includes(contentType, <<"a","p","p","l","i","c","a","t","i","o","n","/","o","c","t","e","t","-","s","t","r","e","a","m">>)
isMedia(contentType) ==
  /\ Truthy(contentType)
  /\ \/ StartsWith(contentType, <<"v","i","d","e","o","/">>)
     \/ StartsWith(contentType, <<"a","u","d","i","o","/">>)
     \/ StartsWith(contentType, <<"i","m","a","g","e","/","g","i","f">>)
     \/ Includes(contentType, <<"m","p","e","g","u","r","l">>)
     \/ Includes(contentType, <<"d","a","s","h","+","x","m","l">>)
     \/ Includes(contentType, <<"a","p","p","l","i","c","a","t","i","o","n","/","o","c","t","e","t","-","s","t","r","e","a","m">>)

InvalidResult ==
  [valid |-> FALSE, contentType |-> Null, contentDisposition |-> Null,
   contentLength |-> NoLength]

\* The ProbeResult the HEAD request resolves to. A response is
\* [kind, ct, cd, cl]: kind "thrown" is a rejected fetch (network failure, or the
\* 2 s abort), "error" a response of type 'error', "ok" any other response with
\* the headers it exposes (Null when not exposed).
ProbeResultOf(resp) ==
  IF resp.kind \in {"thrown", "error"} THEN InvalidResult
  ELSE [valid |-> isMedia(resp.ct),
        contentType |-> resp.ct,
        contentDisposition |-> resp.cd,
        contentLength |-> IF Truthy(resp.cl) THEN ParseInt(resp.cl) ELSE NoLength]

\* getMediaDetails: contentType && (includes('mpegurl') || includes('dash+xml'))
isManifestType(contentType) ==
  /\ Truthy(contentType)
  /\ \/ Includes(contentType, <<"m","p","e","g","u","r","l">>)
     \/ Includes(contentType, <<"d","a","s","h","+","x","m","l">>)

\* ------------------------------------------------------------ URL (WHATWG)
\* new URL(s) for the URLs of the model: scheme "://" host [path] ["?" query]
\* ["#" hash]. ok = FALSE is the TypeError of an unparsable string.
FirstOf(s, cs) ==
  Bind({i \in 1..Len(s) : s[i] \in cs}, LAMBDA C :
    IF C = {} THEN Len(s) + 1 ELSE CHOOSE i \in C : \A j \in C : i <= j)

IsLetter(c) == \E i \in 1..Len(LowerChars) : LowerChars[i] = LowerChar(c)

BadURL ==
  [ok |-> FALSE, scheme |-> <<>>, host |-> <<>>, pathname |-> <<>>, query |-> <<>>,
   hash |-> <<>>]
\* the parts once the scheme, the host, the path and what follows it are cut out
URLParts(scheme, host, path, afterPath, hashAt) ==
  IF Len(host) = 0 \/ \E i \in 1..Len(host) : IsSpace(host[i]) THEN BadURL
  ELSE [ok |-> TRUE,
        scheme |-> ToLower(scheme),
        host |-> ToLower(host),
        pathname |-> IF Len(path) = 0 THEN <<"/">> ELSE path,
        \* query without its "?", hash with its "#" ("" when empty)
        query |-> IF hashAt <= 2 THEN <<>> ELSE SubSeq(afterPath, 2, hashAt - 1),
        hash |-> IF hashAt + 1 > Len(afterPath) THEN <<>>
                 ELSE SubSeq(afterPath, hashAt, Len(afterPath))]
ParseURL(s) ==
  Bind(IndexFrom(s, <<":","/","/">>, 1), LAMBDA sep :
    IF ~(sep > 1 /\ \A i \in 1..(sep - 1) : IsLetter(s[i])) THEN BadURL
    ELSE Bind(SubSeq(s, sep + 3, Len(s)), LAMBDA rest :
      Bind(FirstOf(rest, {"/", "?", "#"}), LAMBDA hEnd :
        Bind(SubSeq(rest, hEnd, Len(rest)), LAMBDA afterHost :
          Bind(FirstOf(afterHost, {"?", "#"}), LAMBDA pEnd :
            Bind(SubSeq(afterHost, pEnd, Len(afterHost)), LAMBDA afterPath :
              URLParts(SubSeq(s, 1, sep - 1), SubSeq(rest, 1, hEnd - 1),
                       SubSeq(afterHost, 1, pEnd - 1), afterPath,
                       FirstOf(afterPath, {"#"}))))))))

\* hex digits, of either case
HexChars == <<"0","1","2","3","4","5","6","7","8","9","a","b","c","d","e","f">>
IsHex(c) == \E i \in 1..Len(HexChars) : HexChars[i] = LowerChar(c)
HexVal(c) == (CHOOSE i \in 1..Len(HexChars) : HexChars[i] = LowerChar(c)) - 1

\* the printable ASCII characters of the model's alphabet: codes 32 (space) to
\* 95, and codes 97 to 126
AsciiLow == <<" ","!","\"","#","$","%","&","'","(",")","*","+",",","-",".","/","0","1","2","3","4","5","6","7","8","9",":",";","<","=",">","?","@","A","B","C","D","E","F","G","H","I","J","K","L","M","N","O","P","Q","R","S","T","U","V","W","X","Y","Z","[","\\","]","^","_">>
AsciiHigh == <<"a","b","c","d","e","f","g","h","i","j","k","l","m","n","o","p","q","r","s","t","u","v","w","x","y","z","{","|","}","~">>
\* the character of a byte; "~" stands for every byte outside the alphabet
CharOf(code) ==
  IF code - 31 \in DOMAIN AsciiLow THEN AsciiLow[code - 31]
  ELSE IF code - 96 \in DOMAIN AsciiHigh THEN AsciiHigh[code - 96]
  ELSE "~"
\* String.prototype.charCodeAt on that alphabet
CharCode(c) ==
  IF \E i \in DOMAIN AsciiLow : AsciiLow[i] = c
  THEN 31 + (CHOOSE i \in DOMAIN AsciiLow : AsciiLow[i] = c)
  ELSE 96 + (CHOOSE i \in DOMAIN AsciiHigh : AsciiHigh[i] = c)
UpperHex == <<"0","1","2","3","4","5","6","7","8","9","A","B","C","D","E","F">>

\* the characters outside ASCII that the model's alphabet has, with their UTF-8
\* bytes: U+00E9 (e with acute, precomposed) and U+0301 (combining acute accent)
Utf8Chars == <<[bytes |-> <<195, 169>>, char |-> "U+00E9"],
               [bytes |-> <<204, 129>>, char |-> "U+0301"]>>
\* s has a %XX escape at position i
IsEscape(s, i) == Len(s) >= i + 2 /\ s[i] = "%" /\ IsHex(s[i + 1]) /\ IsHex(s[i + 2])
EscapedByte(s, i) == 16 * HexVal(s[i + 1]) + HexVal(s[i + 2])

\* application/x-www-form-urlencoded decoding of one name or value: "+" is a
\* space, %XX with two hex digits is the byte XX (the bytes are read as UTF-8),
\* anything else stands for itself
FormDecodeNone(s) == s
RECURSIVE FormDecode(_)
FormDecode(s) ==
  IF Len(s) = 0 THEN s
  ELSE IF s[1] = "+" THEN <<" ">> \o FormDecode(Tail(s))
  ELSE IF /\ IsEscape(s, 1) /\ IsEscape(s, 4)
          /\ \E k \in DOMAIN Utf8Chars :
               Utf8Chars[k].bytes = <<EscapedByte(s, 1), EscapedByte(s, 4)>>
  THEN <<Utf8Chars[CHOOSE k \in DOMAIN Utf8Chars :
                     Utf8Chars[k].bytes = <<EscapedByte(s, 1), EscapedByte(s, 4)>>].char>>
       \o FormDecode(SubSeq(s, 7, Len(s)))
  ELSE IF IsEscape(s, 1)
  THEN <<CharOf(EscapedByte(s, 1))>> \o FormDecode(SubSeq(s, 4, Len(s)))
  ELSE <<s[1]>> \o FormDecode(Tail(s))

\* ... and its serialisation: letters, digits and * - . _ stand for themselves,
\* a space is "+", every other byte is %XX in upper-case hex
FormSafe(c) == IsLetter(c) \/ IsDigit(c) \/ c \in {"*", "-", ".", "_"}
EscapeOf(code) == <<"%", UpperHex[(code \div 16) + 1], UpperHex[(code % 16) + 1]>>
RECURSIVE FormEncode(_)
FormEncode(s) ==
  IF Len(s) = 0 THEN s
  ELSE (IF FormSafe(s[1]) THEN <<s[1]>>
        ELSE IF s[1] = " " THEN <<"+">>
        ELSE IF \E k \in DOMAIN Utf8Chars : Utf8Chars[k].char = s[1]
        THEN EscapeOf(Utf8Chars[CHOOSE k \in DOMAIN Utf8Chars : Utf8Chars[k].char = s[1]].bytes[1])
             \o EscapeOf(Utf8Chars[CHOOSE k \in DOMAIN Utf8Chars : Utf8Chars[k].char = s[1]].bytes[2])
        ELSE EscapeOf(CharCode(s[1])))
       \o FormEncode(Tail(s))

\* url.searchParams.entries(): the query split on "&", empty pieces skipped,
\* each piece split at its first "=" and decoded
RECURSIVE ParamsOf(_)
ParamsOf(pieces) ==
  IF Len(pieces) = 0 THEN <<>>
  ELSE Bind(pieces[1], LAMBDA p :
         Bind(IndexFrom(p, <<"=">>, 1), LAMBDA eq :
           IF Len(p) = 0 THEN <<>>
           ELSE IF eq = 0 THEN << <<FormDecode(p), <<>>>> >>
           ELSE << <<FormDecode(SubSeq(p, 1, eq - 1)),
                     FormDecode(SubSeq(p, eq + 1, Len(p)))>> >>))
       \o ParamsOf(Tail(pieces))
searchParams(query) == IF Len(query) = 0 THEN <<>> ELSE ParamsOf(Split(query, "&"))

\* URLSearchParams.delete(name): every pair of that name goes
DeleteParam(params, name) == SelectSeq(params, LAMBDA p : p[1] # name)

\* String.prototype.localeCompare (ICU root collation) on the model's alphabet,
\* as -1 / 0 / 1. Primary order: space, punctuation, symbols, digits, letters;
\* then accents; then case, lower case first. Canonically equivalent strings
\* (U+00E9, and e followed by U+0301) compare equal, as ECMA-262 requires.
Collation == <<" ","_","-",",",";",":","!","?",".","'","\"","(",")","[","]","{","}","@","*","/","\\","&","#","%","^","+","<","=",">","|","~","$","0","1","2","3","4","5","6","7","8","9","a","b","c","d","e","f","g","h","i","j","k","l","m","n","o","p","q","r","s","t","u","v","w","x","y","z">>
Rank(c) ==
  IF \E i \in 1..Len(Collation) : Collation[i] = LowerChar(c)
  THEN CHOOSE i \in 1..Len(Collation) : Collation[i] = LowerChar(c)
  ELSE 0
\* canonical decomposition (NFD)
RECURSIVE Decompose(_)
Decompose(s) ==
  IF Len(s) = 0 THEN s
  ELSE (IF s[1] = "U+00E9" THEN <<"e", "U+0301">> ELSE <<s[1]>>) \o Decompose(Tail(s))
\* the three levels of weights of a decomposed string
RECURSIVE PrimaryWeights(_)
PrimaryWeights(d) ==
  IF Len(d) = 0 THEN <<>>
  ELSE (IF d[1] = "U+0301" THEN <<>> ELSE <<Rank(d[1])>>) \o PrimaryWeights(Tail(d))
SecondaryWeights(d) == [i \in 1..Len(d) |-> IF d[i] = "U+0301" THEN 1 ELSE 0]
TertiaryWeights(d) == [i \in 1..Len(d) |-> IF LowerChar(d[i]) # d[i] THEN 1 ELSE 0]
RECURSIVE CompareWeights(_, _)
CompareWeights(a, b) ==
  IF Len(a) = 0 /\ Len(b) = 0 THEN 0
  ELSE IF Len(a) = 0 THEN 0 - 1
  ELSE IF Len(b) = 0 THEN 1
  ELSE IF a[1] < b[1] THEN 0 - 1
  ELSE IF a[1] > b[1] THEN 1
  ELSE CompareWeights(Tail(a), Tail(b))
\* the first level at which the two strings differ decides
FirstDifference(primary, secondary, tertiary) ==
  IF primary # 0 THEN primary ELSE IF secondary # 0 THEN secondary ELSE tertiary
CompareDecomposed(x, y) ==
  FirstDifference(CompareWeights(PrimaryWeights(x), PrimaryWeights(y)),
                  CompareWeights(SecondaryWeights(x), SecondaryWeights(y)),
                  CompareWeights(TertiaryWeights(x), TertiaryWeights(y)))
localeCompare(a, b) == CompareDecomposed(Decompose(a), Decompose(b))

\* the comparator of params.sort: by key, then by value
KeyThenValue(byKey, byValue) == IF byKey # 0 THEN byKey < 0 ELSE byValue <= 0
ParamBefore(a, b) == KeyThenValue(localeCompare(a[1], b[1]), localeCompare(a[2], b[2]))

\* Array.prototype.sort (stable) with that comparator
RECURSIVE InsertParam(_, _)
InsertParam(sorted, p) ==
  IF Len(sorted) = 0 THEN <<p>>
  ELSE IF ParamBefore(sorted[1], p) THEN <<sorted[1]>> \o InsertParam(Tail(sorted), p)
  ELSE <<p>> \o sorted
RECURSIVE SortParams(_)
SortParams(params) ==
  IF Len(params) = 0 THEN <<>>
  ELSE InsertParam(SortParams(SubSeq(params, 1, Len(params) - 1)), params[Len(params)])

\* URLSearchParams serialisation
RECURSIVE SerializeParams(_)
SerializeParams(params) ==
  IF Len(params) = 0 THEN <<>>
  ELSE FormEncode(params[1][1]) \o <<"=">> \o FormEncode(params[1][2])
       \o (IF Len(params) = 1 THEN <<>> ELSE <<"&">> \o SerializeParams(Tail(params)))

\* URL.prototype.toString with the query replaced by the given pairs
URLToString(u, params) ==
  u.scheme \o <<":","/","/">> \o u.host \o u.pathname
  \o (IF Len(params) = 0 THEN <<>> ELSE <<"?">> \o SerializeParams(params))
  \o u.hash

\* modifyParams: drop bytestart, byteend and _nc_cat, sort what is left by key
\* then value; an unparsable URL comes back unchanged
modifyParamsNoCatch(originalUrl) ==
  Bind(ParseURL(originalUrl), LAMBDA u :
    URLToString(u, SortParams(
      DeleteParam(DeleteParam(DeleteParam(searchParams(u.query),
        <<"b","y","t","e","s","t","a","r","t">>), <<"b","y","t","e","e","n","d">>), <<"_","n","c","_","c","a","t">>))))
modifyParamsKeepingByteEnd(originalUrl) ==
  Bind(ParseURL(originalUrl), LAMBDA u :
    IF ~u.ok THEN originalUrl
    ELSE URLToString(u, SortParams(
           DeleteParam(DeleteParam(searchParams(u.query),
             <<"b","y","t","e","s","t","a","r","t">>), <<"_","n","c","_","c","a","t">>))))
modifyParams(originalUrl) ==
  Bind(ParseURL(originalUrl), LAMBDA u :
    IF ~u.ok THEN originalUrl
    ELSE URLToString(u, SortParams(
           DeleteParam(DeleteParam(DeleteParam(searchParams(u.query),
             <<"b","y","t","e","s","t","a","r","t">>), <<"b","y","t","e","e","n","d">>), <<"_","n","c","_","c","a","t">>))))

\* ------------------------------------------------ sanitizeFilenameCharacters
MAX_LENGTH == 200

UnsafeChars == {"/", "?", "%", "*", ":", "|", "\"", "<", ">", "\\"}
\* namePart.replace(/[/?%*:|"<>\\/]/g, '_')
ReplaceUnsafe(s) == [i \in 1..Len(s) |-> IF s[i] \in UnsafeChars THEN "_" ELSE s[i]]

\* namePart.replace(/^\.+|\.+$/g, ''): the leading and the trailing run of dots
RECURSIVE StripLeadingDots(_)
StripLeadingDots(s) ==
  IF Len(s) > 0 /\ s[1] = "." THEN StripLeadingDots(Tail(s)) ELSE s
RECURSIVE StripTrailingDots(_)
StripTrailingDots(s) ==
  IF Len(s) > 0 /\ s[Len(s)] = "." THEN StripTrailingDots(SubSeq(s, 1, Len(s) - 1)) ELSE s

\* String.prototype.substring(0, n)
Prefix(s, n) == SubSeq(s, 1, IF n < Len(s) THEN n ELSE Len(s))

\* the length rule: over MAX_LENGTH the name part is cut to leave room for the
\* extension, and an empty result becomes 'downloaded_file'
TruncatedWholeName(namePart, extPart) ==
  IF Len(namePart) + Len(extPart) > MAX_LENGTH THEN Prefix(namePart \o extPart, MAX_LENGTH)
  ELSE IF Len(namePart) + Len(extPart) = 0 THEN <<"d","o","w","n","l","o","a","d","e","d","_","f","i","l","e">>
  ELSE namePart \o extPart
Truncated(namePart, extPart) ==
  IF Len(namePart) + Len(extPart) > MAX_LENGTH
  THEN IF Len(extPart) > 0
       THEN IF MAX_LENGTH - Len(extPart) > 0
            THEN Prefix(namePart, MAX_LENGTH - Len(extPart)) \o extPart
            ELSE Prefix(extPart, MAX_LENGTH)
       ELSE Prefix(namePart, MAX_LENGTH)
  ELSE IF Len(namePart) + Len(extPart) = 0 THEN <<"d","o","w","n","l","o","a","d","e","d","_","f","i","l","e">>
  ELSE namePart \o extPart
\* the cleaning of the name part
CleanName(rawName) == Trim(StripTrailingDots(StripLeadingDots(ReplaceUnsafe(rawName))))
sanitizeFilenameCharacters(filename) ==
  Bind(LastIndexOf(filename, "."), LAMBDA lastDot :
    \* lastDotIndex > 0 (0-based): a dot that is not the first character
    IF lastDot > 1
    THEN Truncated(CleanName(SubSeq(filename, 1, lastDot - 1)),
                   SubSeq(filename, lastDot, Len(filename)))
    ELSE Truncated(CleanName(filename), <<>>))

\* ------------------------------------------------------------ deriveFilename

\* the ASCII characters of the model's alphabet that a %XX escape can name;
\* "~" stands for any other ASCII character
AsciiChar(code) ==
  CASE code = 32 -> " "
    [] code = 37 -> "%"
    [] code = 44 -> ","
    [] code = 46 -> "."
    [] code = 47 -> "/"
    [] code = 63 -> "?"
    [] OTHER -> "~"

\* decodeURIComponent: [ok, value]; ok = FALSE is the URIError of a "%" that is
\* not followed by two hex digits, or of an escape that is not a whole UTF-8
\* sequence (in the model: any single byte >= 0x80)
RECURSIVE decodeURIComponent(_)
decodeURIComponent(s) ==
  IF Len(s) = 0 THEN [ok |-> TRUE, value |-> <<>>]
  ELSE IF s[1] # "%"
  THEN Bind(decodeURIComponent(Tail(s)),
            LAMBDA r : [ok |-> r.ok, value |-> <<s[1]>> \o r.value])
  ELSE IF Len(s) < 3 \/ ~IsHex(s[2]) \/ ~IsHex(s[3]) THEN [ok |-> FALSE, value |-> <<>>]
  ELSE LET code == 16 * HexVal(s[2]) + HexVal(s[3])
       IN IF code >= 128 THEN [ok |-> FALSE, value |-> <<>>]
          ELSE Bind(decodeURIComponent(SubSeq(s, 4, Len(s))),
                    LAMBDA r : [ok |-> r.ok, value |-> <<AsciiChar(code)>> \o r.value])

\* /filename\*?=['"]?(?:UTF-8''|)(.*?)(?:['"]|$|;|\s)/i.exec(contentDisposition):
\* [matched, group] with group = match[1]. The leftmost "filename" followed by
\* "=" or "*=", an optional quote, an optional UTF-8'', then the shortest run
\* up to a quote, a semicolon, white space or the end.
DispositionMatch(cd) ==
  Bind(ToLower(cd), LAMBDA lc :
    Bind({i \in 1..Len(lc) :
            /\ StartsWith(SubSeq(lc, i, Len(lc)), <<"f","i","l","e","n","a","m","e">>)
            /\ \/ StartsWith(SubSeq(lc, i + 8, Len(lc)), <<"=">>)
               \/ StartsWith(SubSeq(lc, i + 8, Len(lc)), <<"*","=">>)}, LAMBDA starts :
      IF starts = {} THEN [matched |-> FALSE, group |-> <<>>]
      ELSE Bind(CHOOSE i \in starts : \A j \in starts : i <= j, LAMBDA i0 :
        Bind(IF lc[i0 + 8] = "=" THEN i0 + 9 ELSE i0 + 10, LAMBDA afterEq :
          Bind(IF afterEq <= Len(cd) /\ cd[afterEq] \in {"'", "\""}
               THEN afterEq + 1 ELSE afterEq, LAMBDA afterQuote :
            Bind(SubSeq(cd, IF StartsWith(SubSeq(lc, afterQuote, Len(lc)), <<"u","t","f","-","8","'","'">>)
                            THEN afterQuote + 7 ELSE afterQuote, Len(cd)), LAMBDA tail :
              [matched |-> TRUE,
               group |-> SubSeq(tail, 1, FirstOf(tail, {"'", "\"", ";", " ", "\t"}) - 1)]))))))

\* the name taken from Content-Disposition ('' when there is none)
NameFromDisposition(contentDisposition) ==
  IF ~Truthy(contentDisposition) THEN <<>>
  ELSE Bind(DispositionMatch(contentDisposition), LAMBDA m :
         IF m.matched /\ Len(m.group) > 0
         THEN Bind(Trim(m.group), LAMBDA g :
                Bind(decodeURIComponent(g), LAMBDA d : IF d.ok THEN d.value ELSE g))
         ELSE <<>>)

\* the name taken from the URL: the last path segment, or a placeholder
NameFromURL(url) ==
  Bind(ParseURL(url), LAMBDA u :
    IF ~u.ok THEN <<"u","n","k","n","o","w","n","_","f","i","l","e">>
    ELSE Bind(Last(Split(u.pathname, "/")), LAMBDA seg :
           Split(Split(IF Len(seg) = 0 THEN <<"u","n","k","n","o","w","n">> ELSE seg, "?")[1], "#")[1]))

\* the extension derived from the content type, with its remaps ('' when none)
Remapped(url, e) ==
  IF e = <<"j","p","e","g">> THEN <<"j","p","g">>
  ELSE IF e = <<"x","-","m","p","e","g","u","r","l">> THEN <<"m","3","u","8">>
  ELSE IF e = <<"v","n","d",".","a","p","p","l","e",".","m","p","e","g","u","r","l">> THEN <<"m","3","u","8">>
  ELSE IF e = <<"d","a","s","h","+","x","m","l">> THEN <<"m","p","d">>
  ELSE IF e = <<"o","c","t","e","t","-","s","t","r","e","a","m">> /\ (Includes(url, <<".","b","i","n">>) \/ Includes(url, <<".","d","a","t">>))
  THEN <<"b","i","n">>
  ELSE IF e = <<"o","c","t","e","t","-","s","t","r","e","a","m">> /\ Includes(url, <<".","t","s">>) THEN <<"t","s">>
  ELSE IF e = <<"m","p","4","a","-","l","a","t","m">> THEN <<"a","a","c">>
  ELSE e
ExtensionOf(url, contentType) ==
  IF ~Truthy(contentType) THEN <<>>
  ELSE Bind(Split(contentType, "/"), LAMBDA typeParts :
         IF Len(typeParts) > 1
         THEN Remapped(url, Split(ToLower(typeParts[2]), ";")[1])
         ELSE <<>>)

mediaExtensions ==
  {<<"m","p","4">>, <<"w","e","b","m">>, <<"o","g","g">>, <<"m","p","3">>, <<"w","a","v">>, <<"f","l","a","c">>, <<"a","a","c">>, <<"a","v","i">>, <<"m","o","v">>,
   <<"m","k","v">>, <<"w","m","v">>, <<"g","i","f">>, <<"j","p","g">>, <<"j","p","e","g">>, <<"p","n","g">>, <<"s","v","g">>, <<"w","e","b","p">>, <<"m","3","u","8">>,
   <<"m","p","d">>, <<"t","s">>, <<"b","i","n">>, <<"d","a","t">>}

\* the extension is appended unless the name ends in it or in a media extension
WithExtensionIgnoringMediaList(name, fileExtension) ==
  IF /\ Len(fileExtension) > 0
     /\ ToLower(IF Includes(name, <<".">>) THEN Last(Split(name, ".")) ELSE <<>>) # fileExtension
  THEN name \o <<".">> \o fileExtension
  ELSE name
WithExtension(name, fileExtension) ==
  Bind(ToLower(IF Includes(name, <<".">>) THEN Last(Split(name, ".")) ELSE <<>>),
       LAMBDA currentExt :
    IF /\ Len(fileExtension) > 0
       /\ currentExt # fileExtension
       /\ currentExt \notin mediaExtensions
    THEN name \o <<".">> \o fileExtension
    ELSE name)
\* the placeholder names take the extension after the cleaning
Placeholders == {<<"d","o","w","n","l","o","a","d","e","d","_","f","i","l","e">>, <<"u","n","k","n","o","w","n","_","f","i","l","e">>, <<"u","n","k","n","o","w","n">>}
deriveFilename(url, contentType, contentDisposition) ==
  Bind(NameFromDisposition(contentDisposition), LAMBDA fromCd :
    Bind(IF Len(fromCd) > 0 THEN fromCd ELSE NameFromURL(url), LAMBDA name :
      Bind(ExtensionOf(url, contentType), LAMBDA fileExtension :
        Bind(sanitizeFilenameCharacters(WithExtension(name, fileExtension)), LAMBDA clean :
          IF clean \in Placeholders /\ Len(fileExtension) > 0
          THEN clean \o <<".">> \o fileExtension
          ELSE clean))))

\* ================================================== onHeadersReceived, pure part
\* the header loop of the onHeadersReceived listener: the last Content-Type and
\* Content-Disposition win; any disposition containing "attachment" forces a download
RECURSIVE ScanHeaders(_, _)
ScanHeaders(hs, acc) ==
  IF Len(hs) = 0 THEN acc
  ELSE LET name == ToLower(hs[1][1])
           value == hs[1][2]
       IN ScanHeaders(Tail(hs),
            IF name = <<"c","o","n","t","e","n","t","-","d","i","s","p","o","s","i","t","i","o","n">>
            THEN [acc EXCEPT !.contentDisposition = value,
                             !.isDownload = acc.isDownload
                                            \/ Includes(ToLower(value), <<"a","t","t","a","c","h","m","e","n","t">>)]
            ELSE IF name = <<"c","o","n","t","e","n","t","-","t","y","p","e">>
            THEN [acc EXCEPT !.contentType = value]
            ELSE IF name = <<"c","o","n","t","e","n","t","-","l","e","n","g","t","h">>
            THEN [acc EXCEPT !.contentLength = ParseInt(value)]
            ELSE acc)

HeaderInfo(responseHeaders) ==
  ScanHeaders(responseHeaders,
    [isDownload |-> FALSE, contentType |-> Null, contentDisposition |-> Null,
     contentLength |-> NoLength])

downloadRelevantTypes == {"main_frame", "sub_frame", "other"}

downloadableContentTypes ==
  {<<"a","p","p","l","i","c","a","t","i","o","n","/","o","c","t","e","t","-","s","t","r","e","a","m">>, <<"a","p","p","l","i","c","a","t","i","o","n","/","z","i","p">>, <<"a","p","p","l","i","c","a","t","i","o","n","/","x","-","r","a","r","-","c","o","m","p","r","e","s","s","e","d">>,
   <<"a","p","p","l","i","c","a","t","i","o","n","/","x","-","t","a","r">>, <<"a","p","p","l","i","c","a","t","i","o","n","/","g","z","i","p">>, <<"a","p","p","l","i","c","a","t","i","o","n","/","p","d","f">>}

NotInline(cd) == ~Truthy(cd) \/ ~Includes(ToLower(cd), <<"i","n","l","i","n","e">>)

\* isDownload as the listener computes it
isDownloadInAnyFrame(type, responseHeaders) ==
  LET h == HeaderInfo(responseHeaders)
      ct == h.contentType
      cd == h.contentDisposition
  IN /\ type \in downloadRelevantTypes
     /\ \/ h.isDownload
        \/ /\ Truthy(ct)
           /\ IF ToLower(ct) \in downloadableContentTypes THEN NotInline(cd)
              ELSE IF StartsWith(ct, <<"v","i","d","e","o","/">>) \/ StartsWith(ct, <<"a","u","d","i","o","/">>)
              THEN NotInline(cd)
              ELSE Includes(ct, <<"m","p","e","g","u","r","l">>) \/ Includes(ct, <<"d","a","s","h","+","x","m","l">>)
isDownload(type, responseHeaders) ==
  LET h == HeaderInfo(responseHeaders)
      ct == h.contentType
      cd == h.contentDisposition
  IN /\ type \in downloadRelevantTypes
     /\ \/ h.isDownload
        \/ /\ Truthy(ct)
           /\ IF ToLower(ct) \in downloadableContentTypes THEN NotInline(cd)
              ELSE IF StartsWith(ct, <<"v","i","d","e","o","/">>) \/ StartsWith(ct, <<"a","u","d","i","o","/">>)
              THEN type = "main_frame" /\ NotInline(cd)
              ELSE Includes(ct, <<"m","p","e","g","u","r","l">>) \/ Includes(ct, <<"d","a","s","h","+","x","m","l">>)

\* =================================================================== state
VARIABLES
  mediaDetailsCache,    \* Map<url, Promise<ProbeResult>>: url -> index in promises
  promises,             \* the promises created by fetchMediaHeaders, one HEAD probe each:
                        \* [url, settled, result, evicted], evicted once the cache is cleared
  tasks,                \* the addMediaUrl calls waiting for their promise, in await order
  scrapedMediaUrls,     \* Map<tabId, Map<url, mediaItem>>, each inner Map in insertion order
  sent,                 \* the messages sent by the last step (urlAdded, showMediaPopup,
                        \* closeAllPopups)
  completed,            \* the addMediaUrl calls that ran to their end in the last step
  submitted,            \* addMediaUrl calls so far
  nadekoServerPort,     \* the companion's port
  localhostStatusCache, \* {isAlive, lastChecked}; probedPort records the port the
                        \* cached verdict was probed on (0: never probed)
  now,                  \* Date.now()
  appUp,                \* environment: the companion answers on the configured port
  statusChecks,         \* the checkLocalhostStatus requests not yet answered: [at, probing, port]
  decided,              \* the {cancel} answers given so far, per response-header event
  downloads,            \* the intercepted downloads so far
  closedTabs,           \* the tabs that tabs.onRemoved has reported closed
  storage,              \* browser.storage.local
  inbox,                \* runtime messages of the options page not yet delivered
  canon,                \* a URL under canonicalisation: [input, url, passes]
  pair,                 \* two URLs canonicalised side by side: [base, first, second,
                        \* outFirst, outSecond, done]
  decision,             \* one response put to the onHeadersReceived listener: [type,
                        \* contentType, contentDisposition, cancel, done]
  popup,                \* the toolbar popup: [open, tabId, display], display being the
                        \* data-original-url of the rows of #urlList, top to bottom
  naming                \* one file name under construction: the argument of
                        \* sanitizeFilenameCharacters [raw] or of deriveFilename [url,
                        \* contentType, contentDisposition], with the result [out, done]

vars == <<mediaDetailsCache, promises, tasks, scrapedMediaUrls, sent, completed, submitted,
          nadekoServerPort, localhostStatusCache, now, appUp, statusChecks,
          decided, downloads, closedTabs, storage, inbox, canon, pair, decision, naming,
          popup>>

probeVars == <<mediaDetailsCache, promises, tasks, scrapedMediaUrls, sent, completed,
               submitted, closedTabs, popup>>
settingsVars == <<storage, inbox>>
canonVars == <<canon, pair, decision, naming>>
routerVars == <<nadekoServerPort, localhostStatusCache, now, appUp, statusChecks, decided,
                downloads>>

\* --------------------------------------------------------------- inputs
TabIds == {1, 2}

\* candidate URLs: two byte ranges of one resource, and a second resource
RawURLs == {<<"h","t","t","p","s",":","/","/","h","/","a",".","m","p","4","?","b","y","t","e","s","t","a","r","t","=","0">>, <<"h","t","t","p","s",":","/","/","h","/","a",".","m","p","4">>, <<"h","t","t","p","s",":","/","/","h","/","m">>}

\* candidate URLs that new URL rejects: a relative reference (with a byte range),
\* and a URL without a host
MalformedURLs == {<<"h","/","a",".","m","p","4","?","b","y","t","e","s","t","a","r","t","=","0">>, <<"h","t","t","p",":","/","/">>}

\* a candidate URL with a tracking parameter, a byte range and two parameters out
\* of order
TrackedURLs == {<<"h","t","t","p","s",":","/","/","h","/","m","?","_","n","c","_","c","a","t","=","1","&","b","y","t","e","e","n","d","=","9","&","b","=","2","&","a","=","1">>}

\* what a HEAD probe can come back with
ProbeResponses ==
  {[kind |-> "thrown", ct |-> Null, cd |-> Null, cl |-> Null],
   [kind |-> "error", ct |-> Null, cd |-> Null, cl |-> Null],
   [kind |-> "ok", ct |-> Null, cd |-> Null, cl |-> Null],
   [kind |-> "ok", ct |-> <<"v","i","d","e","o","/","m","p","4">>, cd |-> Null, cl |-> <<"1","0","0","0","0","0">>],
   [kind |-> "ok", ct |-> <<"a","p","p","l","i","c","a","t","i","o","n","/","v","n","d",".","a","p","p","l","e",".","m","p","e","g","u","r","l">>, cd |-> Null, cl |-> Null],
   [kind |-> "ok", ct |-> <<"a","p","p","l","i","c","a","t","i","o","n","/","v","n","d",".","a","p","p","l","e",".","m","p","e","g","u","r","l">>, cd |-> Null, cl |-> <<"1","0","0">>],
   [kind |-> "ok", ct |-> <<"t","e","x","t","/","h","t","m","l">>, cd |-> Null, cl |-> <<"1","0","0">>]}

\* ... and one response for each family of content type the probe tells apart
ClassifiedResponses ==
  {[kind |-> "ok", ct |-> ct, cd |-> Null, cl |-> Null] :
     ct \in {Null, <<"v","i","d","e","o","/","m","p","4">>, <<"a","u","d","i","o","/","m","p","e","g">>, <<"i","m","a","g","e","/","g","i","f">>, <<"i","m","a","g","e","/","p","n","g">>,
             <<"a","p","p","l","i","c","a","t","i","o","n","/","x","-","m","p","e","g","u","r","l">>, <<"a","p","p","l","i","c","a","t","i","o","n","/","d","a","s","h","+","x","m","l">>,
             <<"a","p","p","l","i","c","a","t","i","o","n","/","o","c","t","e","t","-","s","t","r","e","a","m">>, <<"a","p","p","l","i","c","a","t","i","o","n","/","j","s","o","n">>}}

\* the response-header events of the model, [type, responseHeaders]: an attachment,
\* a video in a frame, and a response without headers
RouterEvents ==
  <<[type |-> "other",
     responseHeaders |-> << <<<<"C","o","n","t","e","n","t","-","T","y","p","e">>, <<"a","p","p","l","i","c","a","t","i","o","n","/","o","c","t","e","t","-","s","t","r","e","a","m">>>>,
                            <<<<"C","o","n","t","e","n","t","-","D","i","s","p","o","s","i","t","i","o","n">>, <<"a","t","t","a","c","h","m","e","n","t",";"," ","f","i","l","e","n","a","m","e","=","\"","f",".","z","i","p","\"">>>> >>],
    [type |-> "sub_frame",
     responseHeaders |-> << <<<<"c","o","n","t","e","n","t","-","t","y","p","e">>, <<"v","i","d","e","o","/","m","p","4">>>> >>],
    [type |-> "main_frame", responseHeaders |-> <<>>]>>

EventURL == <<"h","t","t","p","s",":","/","/","h","/","v","/","f">>

\* the file names the popup and the content scripts ask a smart download for
SmartFilenames == {<<"f",".","z","i","p">>}
\* the handler's arguments in the initiateSmartDownload branch
SmartContentType == <<"a","p","p","l","i","c","a","t","i","o","n","/","o","c","t","e","t","-","s","t","r","e","a","m">>
SmartDisposition(filename) ==
  <<"a","t","t","a","c","h","m","e","n","t",";"," ","f","i","l","e","n","a","m","e","=","\"">> \o filename \o <<"\"">>

\* the listener's header loop and its isDownload, modifyParams and deriveFilename
\* on the inputs above, computed once
headerInfos == [e \in DOMAIN RouterEvents |-> HeaderInfo(RouterEvents[e].responseHeaders)]
isDownloads ==
  [e \in DOMAIN RouterEvents |-> isDownload(RouterEvents[e].type, RouterEvents[e].responseHeaders)]
canonicalUrls == [u \in RawURLs \cup MalformedURLs \cup TrackedURLs |-> modifyParams(u)]
derivedFilenames ==
  [x \in {<<canonicalUrls[u], r.ct, r.cd>> :
            u \in RawURLs \cup MalformedURLs \cup TrackedURLs,
            r \in ProbeResponses \cup ClassifiedResponses}
       \cup {<<EventURL, headerInfos[e].contentType, headerInfos[e].contentDisposition>> :
               e \in DOMAIN RouterEvents}
       \cup {<<EventURL, SmartContentType, SmartDisposition(f)>> : f \in SmartFilenames}
     |-> deriveFilename(x[1], x[2], x[3])]

\* ------------------------------------------------------- Map operations
EmptyMap == [k \in {} |-> <<>>]
\* Map.prototype.delete
MapClear(m, k) == [x \in {} |-> <<>>]
MapDelete(m, k) == [x \in DOMAIN m \ {k} |-> m[x]]
\* Map.prototype.set
MapSet(m, k, v) == [x \in DOMAIN m \cup {k} |-> IF x = k THEN v ELSE m[x]]

\* the inner Map<url, mediaItem> is a sequence of items, in insertion order
ItemsHas(items, url) == \E i \in 1..Len(items) : items[i].url = url
\* Map.prototype.set on it: a present key keeps its place and takes the new value
ItemsSet(items, item) ==
  IF ItemsHas(items, item.url)
  THEN [i \in 1..Len(items) |-> IF items[i].url = item.url THEN item ELSE items[i]]
  ELSE Append(items, item)

\* ------------------------------------------------------ fetchMediaHeaders
\* mediaDetailsCache.has(url)
CacheHasAfterResolve(url) ==
  /\ url \in DOMAIN mediaDetailsCache
  /\ promises[mediaDetailsCache[url]].settled
CacheHasValidOnly(url) ==
  /\ url \in DOMAIN mediaDetailsCache
  /\ promises[mediaDetailsCache[url]].settled => promises[mediaDetailsCache[url]].result.valid
CacheHas(url) == url \in DOMAIN mediaDetailsCache

\* ------------------------------------------------------- getMediaDetails
\* the mediaItem built from the (canonical) url and the ProbeResult
getMediaDetails(url, res) ==
  [url |-> url,
   filename |-> derivedFilenames[<<url, res.contentType, res.contentDisposition>>],
   validMedia |-> res.valid,
   isManifest |-> isManifestType(res.contentType)]

\* ----------------------------------------------------------- addMediaUrl
\* the two messages of an insertion: urlAdded to the popup, and showMediaPopup to
\* the tab's content script when tabId >= 0
InsertionMessages(tabId, mediaItem) ==
  <<[type |-> "urlAdded", tabId |-> tabId, mediaItem |-> mediaItem, delivered |-> TRUE]>>
  \o (IF tabId >= 0
      THEN <<[type |-> "showMediaPopup", tabId |-> tabId, mediaItem |-> mediaItem]>>
      ELSE <<>>)
\* browser.runtime.sendMessage rejects when no popup is listening, and the rejection
\* ends in the empty catch: the messages, with what became of each urlAdded
Delivery(msgs, listening) ==
  [i \in 1..Len(msgs) |->
     IF msgs[i].type = "urlAdded" THEN [msgs[i] EXCEPT !.delivered = listening] ELSE msgs[i]]

\* addMediaUrl after its await: [reg, sent, outcome] from the registry and the
\* messages before it
addMediaUrlNoHasCheck(reg, msgs, tabId, mediaItem) ==
  IF ~mediaItem.validMedia THEN [reg |-> reg, sent |-> msgs, outcome |-> "rejected"]
  ELSE LET reg1 == IF tabId \in DOMAIN reg THEN reg ELSE MapSet(reg, tabId, <<>>)
       IN [reg |-> MapSet(reg1, tabId, ItemsSet(reg1[tabId], mediaItem)),
           sent |-> msgs \o InsertionMessages(tabId, mediaItem),
           outcome |-> "inserted"]
addMediaUrlNoValidCheck(reg, msgs, tabId, mediaItem) ==
  LET reg1 == IF tabId \in DOMAIN reg THEN reg ELSE MapSet(reg, tabId, <<>>)
  IN IF ItemsHas(reg1[tabId], mediaItem.url)
     THEN [reg |-> reg1, sent |-> msgs, outcome |-> "duplicate"]
     ELSE [reg |-> MapSet(reg1, tabId, ItemsSet(reg1[tabId], mediaItem)),
           sent |-> msgs \o InsertionMessages(tabId, mediaItem),
           outcome |-> "inserted"]
addMediaUrlNotifyingDuplicates(reg, msgs, tabId, mediaItem) ==
  IF ~mediaItem.validMedia THEN [reg |-> reg, sent |-> msgs, outcome |-> "rejected"]
  ELSE LET reg1 == IF tabId \in DOMAIN reg THEN reg ELSE MapSet(reg, tabId, <<>>)
       IN IF ItemsHas(reg1[tabId], mediaItem.url)
          THEN [reg |-> reg1, sent |-> msgs \o InsertionMessages(tabId, mediaItem),
                outcome |-> "duplicate"]
          ELSE [reg |-> MapSet(reg1, tabId, ItemsSet(reg1[tabId], mediaItem)),
                sent |-> msgs \o InsertionMessages(tabId, mediaItem),
                outcome |-> "inserted"]
addMediaUrlRefreshing(reg, msgs, tabId, mediaItem) ==
  IF ~mediaItem.validMedia THEN [reg |-> reg, sent |-> msgs, outcome |-> "rejected"]
  ELSE LET reg1 == IF tabId \in DOMAIN reg THEN reg ELSE MapSet(reg, tabId, <<>>)
       IN IF ItemsHas(reg1[tabId], mediaItem.url)
          THEN [reg |-> MapSet(reg1, tabId, ItemsSet(reg1[tabId], mediaItem)),
                sent |-> msgs, outcome |-> "duplicate"]
          ELSE [reg |-> MapSet(reg1, tabId, ItemsSet(reg1[tabId], mediaItem)),
                sent |-> msgs \o InsertionMessages(tabId, mediaItem),
                outcome |-> "inserted"]
\* ... with the tab's session map in place
InsertUnlessPresent(reg, msgs, tabId, mediaItem) ==
  IF ItemsHas(reg[tabId], mediaItem.url)
  THEN [reg |-> reg, sent |-> msgs, outcome |-> "duplicate"]
  ELSE [reg |-> MapSet(reg, tabId, ItemsSet(reg[tabId], mediaItem)),
        sent |-> msgs \o InsertionMessages(tabId, mediaItem),
        outcome |-> "inserted"]
addMediaUrlAfterAwait(reg, msgs, tabId, mediaItem) ==
  IF ~mediaItem.validMedia THEN [reg |-> reg, sent |-> msgs, outcome |-> "rejected"]
  ELSE InsertUnlessPresent(IF tabId \in DOMAIN reg THEN reg ELSE MapSet(reg, tabId, <<>>),
                           msgs, tabId, mediaItem)

\* The continuations of the calls awaiting promise p run in the order the calls
\* awaited, in one turn (microtasks): [waiting, done, reg, sent] after those of
\* ts[i..], where waiting are the calls still awaiting another promise
RECURSIVE RunContinuations(_, _, _, _, _, _, _, _)
\* the calls after ts[i], once the continuation of ts[i] has given r
ContinuedWith(i, p, res, ts, waiting, done, r) ==
  RunContinuations(i + 1, p, res, ts, waiting,
                   Append(done, [tabId |-> ts[i].tabId, url |-> ts[i].url, promise |-> p,
                                 navigated |-> ts[i].navigated,
                                 got |-> res, outcome |-> r.outcome]),
                   r.reg, r.sent)
RunContinuations(i, p, res, ts, waiting, done, reg, msgs) ==
  IF i > Len(ts) THEN [waiting |-> waiting, done |-> done, reg |-> reg, sent |-> msgs]
  ELSE IF ts[i].promise # p
  THEN RunContinuations(i + 1, p, res, ts, Append(waiting, ts[i]), done, reg, msgs)
  ELSE ContinuedWith(i, p, res, ts, waiting, done,
         addMediaUrlAfterAwait(reg, msgs, ts[i].tabId, getMediaDetails(ts[i].url, res)))

\* ------------------------------------------------------------ popup.js
ClosedPopup == [open |-> FALSE, tabId |-> 0, display |-> <<>>]
\* addUrlToPopup: a row for the url unless one is displayed already
addUrlToPopup(display, url) ==
  IF \E i \in 1..Len(display) : display[i] = url THEN display ELSE Append(display, url)
\* refreshUrlList(mediaItems): the list is emptied, then one row per item
RECURSIVE RowsOf(_, _)
RowsOf(display, mediaItems) ==
  IF Len(mediaItems) = 0 THEN display
  ELSE RowsOf(addUrlToPopup(display, mediaItems[1].url), Tail(mediaItems))
refreshUrlList(mediaItems) == RowsOf(<<>>, mediaItems)
\* the popup's runtime.onMessage listener on the messages of one turn, in order:
\* urlAdded for its own tab adds a row
RECURSIVE OnMessages(_, _)
OnMessages(p, msgs) ==
  IF Len(msgs) = 0 THEN p
  ELSE OnMessages(
         IF p.open /\ msgs[1].type = "urlAdded" /\ msgs[1].tabId = p.tabId
         THEN [p EXCEPT !.display = addUrlToPopup(p.display, msgs[1].mediaItem.url)]
         ELSE p,
         Tail(msgs))

\* addMediaUrl(tabId, url, source), called by the onBeforeRequest listener and by
\* the mediaUrlDetected message for a tab that is open: canonicalise, then
\* fetchMediaHeaders. A cache hit
\* on a settled promise continues in the same turn; otherwise the call awaits.
\* the turn's effects on the waiting calls, the registry and the messages
TurnEffects(r) ==
  /\ tasks' = r.waiting
  /\ completed' = r.done
  /\ scrapedMediaUrls' = r.reg
  /\ \E listening \in BOOLEAN :
       /\ popup.open => listening
       /\ sent' = Delivery(r.sent, listening)
  /\ popup' = OnMessages(popup, r.sent)
AwaitOrContinue(t, hit) ==
  IF hit /\ promises[t.promise].settled
  THEN /\ TurnEffects(RunContinuations(1, t.promise, promises[t.promise].result,
                                       Append(tasks, t), <<>>, <<>>, scrapedMediaUrls, <<>>))
       /\ UNCHANGED <<mediaDetailsCache, promises>>
  ELSE /\ tasks' = Append(tasks, t)
       /\ completed' = <<>>
       /\ sent' = <<>>
       /\ IF hit THEN UNCHANGED <<mediaDetailsCache, promises>>
          ELSE /\ promises' = Append(promises,
                      [url |-> t.url, settled |-> FALSE, result |-> InvalidResult,
                       evicted |-> FALSE])
               /\ mediaDetailsCache' = MapSet(mediaDetailsCache, t.url, t.promise)
       /\ UNCHANGED <<scrapedMediaUrls, popup>>
TaskFor(tabId, url) ==
  [tabId |-> tabId, url |-> url, navigated |-> FALSE,
   promise |-> IF CacheHas(url) THEN mediaDetailsCache[url] ELSE Len(promises) + 1]
SubmitCandidate(tabId, rawUrl) ==
  /\ tabId \notin closedTabs
  /\ submitted < MaxTasks
  /\ submitted' = submitted + 1
  /\ \E url \in {canonicalUrls[rawUrl]} : AwaitOrContinue(TaskFor(tabId, url), CacheHas(url))
  /\ UNCHANGED <<closedTabs, routerVars, settingsVars, canonVars>>

\* the HEAD request of promise p comes back (or fails, or is aborted at 2 s)
ProbeSettle(p, resp) ==
  /\ p \in 1..Len(promises)
  /\ ~promises[p].settled
  /\ promises' = [promises EXCEPT ![p].settled = TRUE, ![p].result = ProbeResultOf(resp)]
  /\ TurnEffects(RunContinuations(1, p, ProbeResultOf(resp), tasks, <<>>, <<>>,
                                  scrapedMediaUrls, <<>>))
  /\ UNCHANGED <<mediaDetailsCache, submitted, closedTabs, routerVars, settingsVars, canonVars>>

\* tabs.onRemoved: the host reports a tab closed once, and the tab's id is not
\* used again
TabRemovedClearingCache(tabId) ==
  /\ tabId \notin closedTabs
  /\ closedTabs' = closedTabs \cup {tabId}
  /\ scrapedMediaUrls' = MapDelete(scrapedMediaUrls, tabId)
  /\ mediaDetailsCache' = EmptyMap
  /\ promises' = [p \in 1..Len(promises) |-> [promises[p] EXCEPT !.evicted = TRUE]]
  /\ sent' = <<>> /\ completed' = <<>>
  /\ UNCHANGED <<tasks, submitted, popup, routerVars, settingsVars, canonVars>>
TabRemoved(tabId) ==
  /\ tabId \notin closedTabs
  /\ closedTabs' = closedTabs \cup {tabId}
  /\ scrapedMediaUrls' = MapDelete(scrapedMediaUrls, tabId)
  /\ sent' = <<>> /\ completed' = <<>>
  /\ UNCHANGED <<mediaDetailsCache, promises, tasks, submitted, popup, routerVars, settingsVars, canonVars>>

\* what can happen to a tab's URL: nothing (another property of the tab changed),
\* a change within the document (fragment, history state), or a navigation to a
\* new top-level document
UrlChanges == {"none", "sameDocument", "newDocument"}
\* the host sets changeInfo.url on every change of the tab's URL, of either kind
changeInfoUrl(change) == change # "none"

\* the calls still waiting, each remembering (navigated) that its tab has changed
\* its URL since the call was made; the code keeps no such mark
AfterUrlChange(ts, tabId) ==
  [i \in 1..Len(ts) |->
     IF ts[i].tabId = tabId THEN [ts[i] EXCEPT !.navigated = TRUE] ELSE ts[i]]

\* tabs.onUpdated: changeInfo.url is set on every URL change of the tab
TabUpdated(tabId, urlChanged) ==
  /\ tabId \notin closedTabs
  /\ scrapedMediaUrls' = IF urlChanged /\ tabId \in DOMAIN scrapedMediaUrls
                         THEN MapDelete(scrapedMediaUrls, tabId)
                         ELSE scrapedMediaUrls
  /\ tasks' = IF urlChanged THEN AfterUrlChange(tasks, tabId) ELSE tasks
  /\ sent' = <<>> /\ completed' = <<>>
  /\ UNCHANGED <<mediaDetailsCache, promises, submitted, closedTabs, popup, routerVars, settingsVars, canonVars>>

\* the clearUrls message with a tabId: the tab's session goes, and its content
\* script is told to close its popups. The toolbar popup sends it for its tab
\* (Clear button) and empties its list on the {success: true} answer.
ClearUrls(tabId) ==
  /\ tabId \notin closedTabs
  /\ scrapedMediaUrls' = MapDelete(scrapedMediaUrls, tabId)
  /\ sent' = <<[type |-> "closeAllPopups", tabId |-> tabId, url |-> <<>>]>>
  /\ completed' = <<>>
  /\ popup' = IF popup.open /\ popup.tabId = tabId
              THEN [popup EXCEPT !.display = refreshUrlList(<<>>)]
              ELSE popup
  /\ UNCHANGED <<mediaDetailsCache, promises, tasks, submitted, closedTabs, routerVars, settingsVars, canonVars>>

\* the clearUrls message without a tabId: every session and the probe cache go
\* (the closeAllPopups messages follow when tabs.query answers)
ClearAll ==
  /\ scrapedMediaUrls' = EmptyMap
  /\ mediaDetailsCache' = EmptyMap
  /\ promises' = [p \in 1..Len(promises) |-> [promises[p] EXCEPT !.evicted = TRUE]]
  /\ sent' = <<>> /\ completed' = <<>>
  /\ UNCHANGED <<tasks, submitted, closedTabs, popup, routerVars, settingsVars, canonVars>>

\* the getMediaUrls message of the popup for an open tab: the values of the tab's
\* Map, in the Map's order, or an empty list when the tab has no Map
GetMediaUrls(tabId) ==
  /\ tabId \notin closedTabs
  /\ sent' = <<[type |-> "mediaItems", tabId |-> tabId,
                mediaItems |-> IF tabId \in DOMAIN scrapedMediaUrls
                               THEN scrapedMediaUrls[tabId] ELSE <<>>]>>
  /\ completed' = <<>>
  /\ UNCHANGED <<mediaDetailsCache, promises, tasks, scrapedMediaUrls, submitted, closedTabs,
                 popup, routerVars, settingsVars, canonVars>>

\* the toolbar popup is opened on tab tabId (DOMContentLoaded): currentTabId is
\* the active tab, and the answer to getMediaUrls fills the list
PopupOpened(tabId) ==
  /\ ~popup.open
  /\ tabId \notin closedTabs
  /\ sent' = <<[type |-> "mediaItems", tabId |-> tabId,
                mediaItems |-> IF tabId \in DOMAIN scrapedMediaUrls
                               THEN scrapedMediaUrls[tabId] ELSE <<>>]>>
  /\ completed' = <<>>
  /\ popup' = [open |-> TRUE, tabId |-> tabId,
               display |-> refreshUrlList(IF tabId \in DOMAIN scrapedMediaUrls
                                          THEN scrapedMediaUrls[tabId] ELSE <<>>)]
  /\ UNCHANGED <<mediaDetailsCache, promises, tasks, scrapedMediaUrls, submitted, closedTabs,
                 routerVars, settingsVars, canonVars>>

\* the toolbar popup is closed, and its document is gone
PopupClosed ==
  /\ popup.open
  /\ popup' = ClosedPopup
  /\ sent' = <<>> /\ completed' = <<>>
  /\ UNCHANGED <<mediaDetailsCache, promises, tasks, scrapedMediaUrls, submitted, closedTabs,
                 routerVars, settingsVars, canonVars>>

\* ============================================================ liveness cache
DefaultPort == 12345
checkInterval == 5000
Ports == {DefaultPort, DefaultPort + 1}

\* Date.now() moves in steps of half the cache interval, from a start that is
\* later than the interval (lastChecked starts at 0, the epoch)
TickStep == checkInterval \div 2
StartTime == 2 * checkInterval

\* isLocalhostAlive's guard: !forceCheck && now - lastChecked < checkInterval
ServeFromCacheIgnoringForce(forceCheck, t, cache) ==
  t - cache.lastChecked < checkInterval
ServeFromCache(forceCheck, t, cache) ==
  ~forceCheck /\ t - cache.lastChecked < checkInterval

\* ============================================================ download router
\* the listener's return value {cancel: ...} for event e
RouterDecisionByLiveness(e) == isDownloads[e] /\ localhostStatusCache.isAlive
RouterDecision(e) == isDownloads[e]

\* an intercepted download: where it came from (ev is the event's index, 0 for
\* the initiateSmartDownload message), the handler's arguments, and the follow-up
NewDownload(origin, ev, contentType, contentDisposition) ==
  [origin |-> origin, ev |-> ev, url |-> EventURL, contentType |-> contentType,
   contentDisposition |-> contentDisposition,
   phase |-> "scheduled",   \* scheduled / checking / forwarding / native / forwarded
                            \* / nativeDone / nativeFailed
   checkStartedAt |-> 0,    \* `now` of the handler's isLocalhostAlive call while it probes
   probed |-> FALSE,        \* that call issued a HEAD probe of the companion
   isAlive |-> "unknown",   \* what that call returned: unknown / alive / dead
   port |-> 0,              \* nadekoServerPort when that call was made
   verdictPort |-> 0,       \* the port the returned verdict was probed on
   filename |-> <<>>,
   forward |-> "none",      \* the POST: none / pending / ok / failed
   native |-> 0,            \* calls of browser.downloads.download
   nativeResult |-> "none", \* none / pending / ok / failed
   handled |-> 0,           \* downloadHandledByNadeko messages sent
   uiFailure |-> 0,         \* failure notifications or non-success responses sent
   response |-> "none"]     \* the sendResponse of initiateSmartDownload

\* handleInterceptedDownload after its await: forward when alive, else the
\* native download; the smart-download request is answered as soon as the
\* handler's promise resolves, which is here
HandleAfterAwaitNoElse(dl, isAlive) ==
  LET filename == derivedFilenames[<<dl.url, dl.contentType, dl.contentDisposition>>]
      answered == IF dl.origin = "message" THEN "success" ELSE dl.response
      seen == IF isAlive THEN "alive" ELSE "dead"
  IN IF isAlive
     THEN [dl EXCEPT !.filename = filename, !.isAlive = seen, !.forward = "pending",
                     !.native = 1, !.nativeResult = "pending",
                     !.phase = "forwarding", !.response = answered]
     ELSE [dl EXCEPT !.filename = filename, !.isAlive = seen, !.native = 1,
                     !.nativeResult = "pending", !.phase = "native",
                     !.response = answered]
HandleAfterAwait(dl, isAlive) ==
  LET filename == derivedFilenames[<<dl.url, dl.contentType, dl.contentDisposition>>]
      answered == IF dl.origin = "message" THEN "success" ELSE dl.response
      seen == IF isAlive THEN "alive" ELSE "dead"
  IN IF isAlive
     THEN [dl EXCEPT !.filename = filename, !.isAlive = seen, !.forward = "pending",
                     !.phase = "forwarding", !.response = answered]
     ELSE [dl EXCEPT !.filename = filename, !.isAlive = seen, !.native = 1,
                     !.nativeResult = "pending", !.phase = "native",
                     !.response = answered]

\* the POST to the companion settles: 2xx, or a non-success status / network error.
\* .then sends downloadHandledByNadeko; .catch falls back to the native download.
ForwardSettledAlwaysNative(dl, ok) ==
  [dl EXCEPT !.forward = IF ok THEN "ok" ELSE "failed",
             !.handled = IF ok THEN @ + 1 ELSE @,
             !.native = @ + 1, !.nativeResult = "pending", !.phase = "native"]
ForwardSettledNoFallback(dl, ok) ==
  IF ok THEN [dl EXCEPT !.forward = "ok", !.handled = @ + 1, !.phase = "forwarded"]
  ELSE [dl EXCEPT !.forward = "failed", !.phase = "dropped"]
ForwardSettledAlwaysHandled(dl, ok) ==
  IF ok THEN [dl EXCEPT !.forward = "ok", !.handled = @ + 1, !.phase = "forwarded"]
  ELSE [dl EXCEPT !.forward = "failed", !.handled = @ + 1, !.native = @ + 1,
                  !.nativeResult = "pending", !.phase = "native"]
ForwardSettled(dl, ok) ==
  IF ok THEN [dl EXCEPT !.forward = "ok", !.handled = @ + 1, !.phase = "forwarded"]
  ELSE [dl EXCEPT !.forward = "failed", !.native = @ + 1, !.nativeResult = "pending",
                  !.phase = "native"]

\* handleInterceptedDownload from its start: isLocalhostAlive() is served from
\* the cache, and the handler runs on in the same turn, or a HEAD probe of the
\* companion is issued and the handler awaits it
HandleFromStart(dl) ==
  IF ServeFromCache(FALSE, now, localhostStatusCache)
  THEN HandleAfterAwait([dl EXCEPT !.port = nadekoServerPort,
                                   !.verdictPort = localhostStatusCache.probedPort],
                        localhostStatusCache.isAlive)
  ELSE [dl EXCEPT !.checkStartedAt = now, !.probed = TRUE, !.phase = "checking",
                  !.port = nadekoServerPort, !.verdictPort = nadekoServerPort]

\* --------------------------------------------------------------- actions
\* webRequest.onHeadersReceived for event e: decide, and for a download schedule
\* the follow-up with setTimeout(0) before returning {cancel: true}
HeadersReceived(e) ==
  /\ LET h == headerInfos[e]
         cancel == RouterDecision(e)
     IN /\ decided' = decided \cup {<<e, cancel>>}
        /\ IF cancel
           THEN /\ Len(downloads) < MaxDownloads
                /\ downloads' = Append(downloads,
                     NewDownload("webRequest", e, h.contentType, h.contentDisposition))
           ELSE UNCHANGED downloads
  /\ UNCHANGED <<nadekoServerPort, localhostStatusCache, now, appUp, statusChecks, probeVars, settingsVars, canonVars>>

\* the timer of download d fires: handleInterceptedDownload runs
HandleStart(d) ==
  /\ d \in 1..Len(downloads)
  /\ downloads[d].phase = "scheduled"
  /\ downloads' = [downloads EXCEPT ![d] = HandleFromStart(@)]
  /\ UNCHANGED <<nadekoServerPort, localhostStatusCache, now, appUp, statusChecks, decided,
                 probeVars, settingsVars, canonVars>>

\* the initiateSmartDownload message of the popup or of a content script:
\* handleInterceptedDownload runs at once, as for an octet-stream attachment
SmartDownload(filename) ==
  /\ Len(downloads) < MaxDownloads
  /\ downloads' = Append(downloads,
       HandleFromStart(NewDownload("message", 0, SmartContentType, SmartDisposition(filename))))
  /\ UNCHANGED <<nadekoServerPort, localhostStatusCache, now, appUp, statusChecks, decided,
                 probeVars, settingsVars, canonVars>>

\* the checkLocalhostStatus message of the popup: isLocalhostAlive(true)
CheckLocalhostStatus ==
  /\ Len(statusChecks) < MaxStatusChecks
  /\ statusChecks' =
       Append(statusChecks,
              [at |-> now, probing |-> ~ServeFromCache(TRUE, now, localhostStatusCache),
               port |-> nadekoServerPort])
  /\ UNCHANGED <<nadekoServerPort, localhostStatusCache, now, appUp, decided, downloads,
                 probeVars, settingsVars, canonVars>>

\* the HEAD probe of download d's handler settles: a response (alive), or a
\* network failure or the 1 s abort (not alive). The cache is written and the
\* handler runs on.
LivenessSettle(d, alive) ==
  /\ d \in 1..Len(downloads)
  /\ downloads[d].phase = "checking"
  /\ alive => appUp
  /\ localhostStatusCache' = [isAlive |-> alive, lastChecked |-> downloads[d].checkStartedAt,
                              probedPort |-> downloads[d].verdictPort]
  /\ downloads' = [downloads EXCEPT ![d] = HandleAfterAwait([@ EXCEPT !.checkStartedAt = 0], alive)]
  /\ UNCHANGED <<nadekoServerPort, now, appUp, statusChecks, decided, probeVars, settingsVars, canonVars>>

\* the isLocalhostAlive(true) call of waiting checkLocalhostStatus request i
\* resolves: its HEAD probe settles and the cache is written (a call served from
\* the cache resolves with the cached value), and {isAlive} is sent back
StatusSettleKeepingOnFailure(i, alive) ==
  /\ i \in 1..Len(statusChecks)
  /\ IF statusChecks[i].probing
     THEN /\ alive => appUp
          /\ IF alive
             THEN localhostStatusCache' = [isAlive |-> TRUE, lastChecked |-> statusChecks[i].at,
                                           probedPort |-> statusChecks[i].port]
             ELSE UNCHANGED localhostStatusCache
     ELSE /\ alive = localhostStatusCache.isAlive
          /\ UNCHANGED localhostStatusCache
  /\ statusChecks' = SubSeq(statusChecks, 1, i - 1) \o SubSeq(statusChecks, i + 1, Len(statusChecks))
  /\ UNCHANGED <<nadekoServerPort, now, appUp, decided, downloads, probeVars, settingsVars, canonVars>>
StatusSettle(i, alive) ==
  /\ i \in 1..Len(statusChecks)
  /\ IF statusChecks[i].probing
     THEN /\ alive => appUp
          /\ localhostStatusCache' = [isAlive |-> alive, lastChecked |-> statusChecks[i].at,
                                      probedPort |-> statusChecks[i].port]
     ELSE /\ alive = localhostStatusCache.isAlive
          /\ UNCHANGED localhostStatusCache
  /\ statusChecks' = SubSeq(statusChecks, 1, i - 1) \o SubSeq(statusChecks, i + 1, Len(statusChecks))
  /\ UNCHANGED <<nadekoServerPort, now, appUp, decided, downloads, probeVars, settingsVars, canonVars>>

\* the POST of download d settles
ForwardSettle(d, ok) ==
  /\ d \in 1..Len(downloads)
  /\ downloads[d].forward = "pending"
  /\ ok => appUp
  /\ downloads' = [downloads EXCEPT ![d] = ForwardSettled(@, ok)]
  /\ UNCHANGED <<nadekoServerPort, localhostStatusCache, now, appUp, statusChecks, decided,
                 probeVars, settingsVars, canonVars>>

\* browser.downloads.download of download d settles; a rejection is only logged
NativeSettle(d, ok) ==
  /\ d \in 1..Len(downloads)
  /\ downloads[d].nativeResult = "pending"
  /\ downloads' = [downloads EXCEPT ![d].nativeResult = IF ok THEN "ok" ELSE "failed",
                                    ![d].phase = IF ok THEN "nativeDone" ELSE "nativeFailed"]
  /\ UNCHANGED <<nadekoServerPort, localhostStatusCache, now, appUp, statusChecks, decided,
                 probeVars, settingsVars, canonVars>>

\* the portChanged message
PortChanged(newPort) ==
  /\ newPort # nadekoServerPort
  /\ nadekoServerPort' = newPort
  /\ localhostStatusCache' = [localhostStatusCache EXCEPT !.lastChecked = 0]
  /\ UNCHANGED <<now, appUp, statusChecks, decided, downloads, probeVars, settingsVars, canonVars>>

\* time passes
Tick ==
  /\ now < StartTime + MaxTicks * TickStep
  /\ now' = now + TickStep
  /\ UNCHANGED <<nadekoServerPort, localhostStatusCache, appUp, statusChecks, decided,
                 downloads, probeVars, settingsVars, canonVars>>

\* the companion starts or stops
AppToggle ==
  /\ appUp' = ~appUp
  /\ UNCHANGED <<nadekoServerPort, localhostStatusCache, now, statusChecks, decided,
                 downloads, probeVars, settingsVars, canonVars>>

\* ============================================================ options page
\* what the user can type in the port field, and the state of the checkbox
PortInputs == {<<"1","2","3","4","6">>, <<"1","2","3","4","5">>, <<"0">>, <<"7","0","0","0","0">>, <<"x">>}
ShowPopupChoices == {"true", "false"}

\* saveOptions' test: isNaN(port) || port < 1 || port > 65535
InvalidPort(port) == port = NaN \/ port < 1 \/ port > 65535

\* the message saveOptions sends to the background script
SettingsNotification(port, isChecked) ==
  [type |-> "settingChanged", newPort |-> port, showChecked |-> isChecked]

\* saveOptions: an invalid port is refused; otherwise the port and the checkbox
\* are stored and the background script is notified. A failing storage write
\* (stored = FALSE) ends the handler in its catch, with nothing sent.
SaveOptions(input, isChecked, stored) ==
  /\ Len(inbox) < MaxInbox
  /\ LET port == ParseInt(input)
     IN IF InvalidPort(port) \/ ~stored
        THEN UNCHANGED <<storage, inbox>>
        ELSE /\ storage' = MapSet(MapSet(storage, "nadekoPort", port), "showPopup", isChecked)
             /\ inbox' = Append(inbox, SettingsNotification(port, isChecked))
  /\ UNCHANGED <<routerVars, probeVars, canonVars>>

\* the port branch of the background's runtime.onMessage listener: [port, cache]
\* after a message; only the type "portChanged" has a branch that writes them
OnMessagePort(message, port, cache) ==
  IF message.type = "portChanged"
  THEN [port |-> message.newPort, cache |-> [cache EXCEPT !.lastChecked = 0]]
  ELSE [port |-> port, cache |-> cache]

\* the background's runtime.onMessage listener receives the options page's message
DeliverMessage ==
  /\ inbox # <<>>
  /\ LET r == OnMessagePort(Head(inbox), nadekoServerPort, localhostStatusCache)
     IN /\ nadekoServerPort' = r.port
        /\ localhostStatusCache' = r.cache
  /\ inbox' = Tail(inbox)
  /\ UNCHANGED <<now, appUp, statusChecks, decided, downloads, probeVars, storage, canonVars>>

\* ============================================================ canonicalisation
\* URLs handed to modifyParams: well-formed ones (mixed case, with and without
\* a path), and malformed ones (no scheme, empty, a space in the host) ...
CanonBases == {<<"h","t","t","p","s",":","/","/","h","/","a",".","m","p","4">>, <<"H","T","T","P","S",":","/","/","H","/","p">>, <<"h","t","t","p","s",":","/","/","h">>, <<"h","/","a">>, <<>>, <<"h","t","t","p","s",":","/","/"," ","h","/","x">>}
\* ... with queries: unsorted, with the dropped parameters, with escapes, "+" and
\* characters that the serialisation escapes, with empty and repeated pieces ...
CanonQueries == {<<>>, <<"?">>, <<"?","b","=","2","&","a","=","1">>, <<"?","a","=","1","&","b","y","t","e","s","t","a","r","t","=","0","&","b","y","t","e","e","n","d","=","9">>, <<"?","_","n","c","_","c","a","t","=","1","&","z">>, <<"?","a","=","%","2","5","4","1","&","a","=","+","x">>, <<"?","b","&","a","=","1","=","2","&","&">>, <<"?","%","6","2","y","t","e","s","t","a","r","t","=","1","&","k","=","v","%","2">>, <<"?","a","=","b","/","c","&","A","=","1">>, <<"?","x","=","a",",","b","&","x","=","a"," ","b">>}
\* ... and fragments
CanonHashes == {<<>>, <<"#","f">>, <<"#","?","b","=","1","&","a","=","2">>}
CanonURLs == {b \o q \o h : b \in CanonBases, q \in CanonQueries, h \in CanonHashes}

\* a caller canonicalises a URL, and canonicalises the result again
Canonicalize ==
  /\ canon.passes < MaxPasses
  /\ canon' = [canon EXCEPT !.url = modifyParams(canon.url), !.passes = @ + 1]
  /\ UNCHANGED <<routerVars, probeVars, settingsVars, pair, decision, naming>>

\* --------------------------------------------------- two URLs side by side
\* what precedes the query and what follows it: well-formed bases (one with
\* upper case and a fragment that looks like a query) and a relative reference,
\* which new URL rejects
PairBases == {[head |-> <<"h","t","t","p","s",":","/","/","h","/","a",".","m","p","4">>, hash |-> <<>>],
              [head |-> <<"H","T","T","P","S",":","/","/","H","/","p">>, hash |-> <<"#","b","y","t","e","s","t","a","r","t","=","1","&","a","=","0">>],
              [head |-> <<"h","/","a">>, hash |-> <<>>]}
\* the name=value pieces of a query: plain ones, byte ranges, and one name written
\* as U+00E9 and as e followed by U+0301
PairPieces == {<<"a","=","1">>, <<"b","=","2">>, <<"b","y","t","e","s","t","a","r","t","=","0">>, <<"b","y","t","e","s","t","a","r","t","=","5">>, <<"b","y","t","e","e","n","d","=","9">>, <<"%","C","3","%","A","9","=","1">>, <<"e","%","C","C","%","8","1","=","1">>}
PieceLists ==
  {<<>>} \cup {<<p>> : p \in PairPieces} \cup {<<p, q>> : p, q \in PairPieces}
  \cup {<<p, q, r>> : p, q, r \in PairPieces}

\* the name of a piece as written, and the pieces that are not byte ranges
PieceName(p) == Bind(IndexFrom(p, <<"=">>, 1), LAMBDA eq : IF eq = 0 THEN p ELSE SubSeq(p, 1, eq - 1))
WithoutRange(pieces) ==
  SelectSeq(pieces, LAMBDA p : PieceName(p) \notin {<<"b","y","t","e","s","t","a","r","t">>, <<"b","y","t","e","e","n","d">>})
\* the same pieces, each as many times
SamePieces(a, b) ==
  /\ Len(a) = Len(b)
  /\ \A p \in PairPieces : Cardinality({i \in 1..Len(a) : a[i] = p})
                           = Cardinality({i \in 1..Len(b) : b[i] = p})

RECURSIVE JoinPieces(_)
JoinPieces(pieces) ==
  IF Len(pieces) = 0 THEN <<>>
  ELSE pieces[1] \o (IF Len(pieces) = 1 THEN <<>> ELSE <<"&">> \o JoinPieces(Tail(pieces)))
PairURL(base, pieces) ==
  base.head \o (IF Len(pieces) = 0 THEN <<>> ELSE <<"?">> \o JoinPieces(pieces)) \o base.hash

\* two requests for one resource: their URLs differ in byte-range parameters
\* only, or in the order of their parameters only
PairInputs ==
  {[base |-> b, first |-> xy[1], second |-> xy[2], outFirst |-> <<>>, outSecond |-> <<>>,
    done |-> FALSE] :
     b \in PairBases,
     xy \in {z \in PieceLists \X PieceLists :
               WithoutRange(z[1]) = WithoutRange(z[2]) \/ SamePieces(z[1], z[2])}}

\* getMediaDetails canonicalises the URL of each of the two requests
CanonicalizePair ==
  /\ ~pair.done
  /\ pair' = [pair EXCEPT !.outFirst = modifyParams(PairURL(pair.base, pair.first)),
                          !.outSecond = modifyParams(PairURL(pair.base, pair.second)),
                          !.done = TRUE]
  /\ UNCHANGED <<routerVars, probeVars, settingsVars, canon, decision, naming>>

\* ============================================================ specifications
InitBackground ==
  /\ mediaDetailsCache = EmptyMap
  /\ promises = <<>>
  /\ tasks = <<>>
  /\ scrapedMediaUrls = EmptyMap
  /\ sent = <<>>
  /\ completed = <<>>
  /\ submitted = 0
  /\ nadekoServerPort = DefaultPort
  /\ localhostStatusCache = [isAlive |-> FALSE, lastChecked |-> 0, probedPort |-> 0]
  /\ now = StartTime
  \* the companion is started (and stopped) by AppToggle
  /\ appUp = FALSE
  /\ statusChecks = <<>>
  /\ decided = {}
  /\ downloads = <<>>
  /\ closedTabs = {}
  /\ storage = EmptyMap
  /\ inbox = <<>>
  /\ popup = ClosedPopup

\* ================================================ the listener's decision alone
\* the resource types a response can have, the listener's three and two others
DecisionTypes == {"main_frame", "sub_frame", "other", "xmlhttprequest", "media"}
\* Content-Type and Content-Disposition values; Null is a response without the header
DecisionContentTypes ==
  {Null, <<"a","p","p","l","i","c","a","t","i","o","n","/","o","c","t","e","t","-","s","t","r","e","a","m">>, <<"A","p","p","l","i","c","a","t","i","o","n","/","P","D","F">>, <<"a","p","p","l","i","c","a","t","i","o","n","/","z","i","p">>,
   <<"v","i","d","e","o","/","m","p","4">>, <<"a","u","d","i","o","/","m","p","e","g">>, <<"a","u","d","i","o","/","x","-","m","p","e","g","u","r","l">>, <<"a","p","p","l","i","c","a","t","i","o","n","/","v","n","d",".","a","p","p","l","e",".","m","p","e","g","u","r","l">>,
   <<"a","p","p","l","i","c","a","t","i","o","n","/","d","a","s","h","+","x","m","l">>, <<"t","e","x","t","/","h","t","m","l">>}
DecisionDispositions ==
  {Null, <<"a","t","t","a","c","h","m","e","n","t",";"," ","f","i","l","e","n","a","m","e","=","\"","f",".","z","i","p","\"">>, <<"i","n","l","i","n","e">>, <<"I","N","L","I","N","E",";"," ","f","i","l","e","n","a","m","e","=","\"","f","\"">>,
   <<"A","t","t","a","c","h","m","e","n","t">>}
DecisionInputs ==
  {[type |-> ty, contentType |-> ct, contentDisposition |-> cd, cancel |-> FALSE,
    done |-> FALSE] :
     ty \in DecisionTypes, ct \in DecisionContentTypes, cd \in DecisionDispositions}
\* details.responseHeaders of such a response
HeadersOf(contentType, contentDisposition) ==
  (IF contentType = Null THEN <<>> ELSE << <<<<"C","o","n","t","e","n","t","-","T","y","p","e">>, contentType>> >>)
  \o (IF contentDisposition = Null THEN <<>>
      ELSE << <<<<"c","o","n","t","e","n","t","-","d","i","s","p","o","s","i","t","i","o","n">>, contentDisposition>> >>)

\* the listener answers {cancel: isDownload}
DecideDownload ==
  /\ ~decision.done
  /\ decision' =
       [decision EXCEPT
          !.cancel = isDownload(decision.type,
                                HeadersOf(decision.contentType, decision.contentDisposition)),
          !.done = TRUE]
  /\ UNCHANGED <<routerVars, probeVars, settingsVars, canon, pair, naming>>

\* ============================================================ file names alone
\* a run of n copies of one character
Rep(c, n) == [i \in 1..n |-> c]
\* the names put to sanitizeFilenameCharacters: what precedes the body (nothing,
\* dots, a path separator), a body of n letters, what follows it (nothing, a
\* space), and the extension (none, two usual ones, one longer than the maximum)
SanitizeLeads == {<<>>, Rep(".", 60), <<"a","/","b",":">>}
SanitizeBodyLengths == {1, 10, 190, 196, 197, 246, 250}
SanitizeTrails == {<<>>, <<" ">>}
SanitizeExtensions == {<<>>, <<".","m","p","4">>, <<".","m","3","u","8">>, <<".">> \o Rep("x", 210)}
SanitizeInputs ==
  {[raw |-> lead \o Rep("a", n) \o trail \o ext, out |-> <<>>, done |-> FALSE] :
     lead \in SanitizeLeads, n \in SanitizeBodyLengths, trail \in SanitizeTrails,
     ext \in SanitizeExtensions}

\* sanitizeFilenameCharacters(filename)
Sanitize ==
  /\ ~naming.done
  /\ "raw" \in DOMAIN naming
  /\ naming' = [naming EXCEPT !.out = sanitizeFilenameCharacters(naming.raw), !.done = TRUE]
  /\ UNCHANGED <<routerVars, probeVars, settingsVars, canon, pair, decision>>

\* the arguments put to deriveFilename. A Content-Disposition is written from the
\* value of its filename parameter (kept beside it as `parameter`): quoted,
\* as a bare token when the value has no space, or in the extended form with
\* the space percent-encoded; or it has no filename parameter, or is absent.
NamingNames == {<<"c","l","i","p",".","m","p","4">>, <<"C","L","I","P",".","M","P","4">>, <<"m","y"," ","c","l","i","p",".","m","p","4">>, <<"c","l","i","p">>, <<"r","e","p","o","r","t",".","p","d","f">>}
RECURSIVE PercentEncoded(_)
PercentEncoded(s) ==
  IF Len(s) = 0 THEN s
  ELSE (IF s[1] = " " THEN <<"%","2","0">> ELSE <<s[1]>>) \o PercentEncoded(Tail(s))
NamingDispositions ==
  {[header |-> <<"a","t","t","a","c","h","m","e","n","t",";"," ","f","i","l","e","n","a","m","e","=","\"">> \o n \o <<"\"">>, parameter |-> n] : n \in NamingNames}
  \cup {[header |-> <<"a","t","t","a","c","h","m","e","n","t",";"," ","f","i","l","e","n","a","m","e","*","=","U","T","F","-","8","'","'">> \o PercentEncoded(n), parameter |-> n] :
          n \in NamingNames}
  \cup {[header |-> <<"i","n","l","i","n","e",";"," ","f","i","l","e","n","a","m","e","=">> \o n, parameter |-> n] :
          n \in {m \in NamingNames : ~Includes(m, <<" ">>)}}
  \cup {[header |-> h, parameter |-> <<>>] : h \in {Null, <<"i","n","l","i","n","e">>, <<"a","t","t","a","c","h","m","e","n","t">>}}
\* a URL is written from its last path segment (kept beside it as `segment`)
NamingSegments == {<<"a","b","c">>, <<"a","b","c",".","m","p","4">>, <<"i","n","d","e","x",".","m","3","u","8">>, <<>>}
NamingURLs ==
  {[url |-> <<"h","t","t","p","s",":","/","/","x",".","c","o","m","/","v","/">> \o s \o q, segment |-> s] :
     s \in NamingSegments, q \in {<<>>, <<"?","x","=","1">>, <<"#","t","=","1">>}}
  \cup {[url |-> <<"x",".","c","o","m","/","v","/","a","b","c">>, segment |-> <<>>]}
NamingContentTypes ==
  {Null, <<"v","i","d","e","o","/","m","p","4">>, <<"a","p","p","l","i","c","a","t","i","o","n","/","v","n","d",".","a","p","p","l","e",".","m","p","e","g","u","r","l">>, <<"i","m","a","g","e","/","j","p","e","g">>,
   <<"T","e","x","t","/","H","T","M","L",";"," ","c","h","a","r","s","e","t","=","u","t","f","-","8">>}
NamingInputs ==
  {[url |-> u.url, segment |-> u.segment, contentType |-> ct,
    contentDisposition |-> cd.header, parameter |-> cd.parameter,
    out |-> <<>>, done |-> FALSE] :
     u \in NamingURLs, ct \in NamingContentTypes, cd \in NamingDispositions}

\* deriveFilename(url, contentType, contentDisposition)
DeriveName ==
  /\ ~naming.done
  /\ "url" \in DOMAIN naming
  /\ naming' = [naming EXCEPT
                  !.out = deriveFilename(naming.url, naming.contentType,
                                         naming.contentDisposition),
                  !.done = TRUE]
  /\ UNCHANGED <<routerVars, probeVars, settingsVars, canon, pair, decision>>

\* the state after the scripts are loaded
NoPair ==
  [base |-> [head |-> <<>>, hash |-> <<>>], first |-> <<>>, second |-> <<>>,
   outFirst |-> <<>>, outSecond |-> <<>>, done |-> FALSE]
NoCanon == [input |-> <<>>, url |-> <<>>, passes |-> 0]
NoDecision ==
  [type |-> "", contentType |-> Null, contentDisposition |-> Null, cancel |-> FALSE,
   done |-> TRUE]
NoNaming == [out |-> <<>>, done |-> TRUE]
InitPure == InitBackground /\ canon = NoCanon /\ pair = NoPair /\ decision = NoDecision
Init == InitPure /\ naming = NoNaming
\* ... and with a URL about to be canonicalised
InitCanon ==
  /\ InitBackground
  /\ canon \in {[input |-> u, url |-> u, passes |-> 0] : u \in CanonURLs}
  /\ pair = NoPair
  /\ decision = NoDecision
  /\ naming = NoNaming
\* ... and with two URLs about to be canonicalised
InitPairs ==
  /\ InitBackground /\ canon = NoCanon /\ pair \in PairInputs /\ decision = NoDecision
  /\ naming = NoNaming
\* ... and with a response about to be put to the listener
InitDecisions ==
  /\ InitBackground /\ canon = NoCanon /\ pair = NoPair /\ decision \in DecisionInputs
  /\ naming = NoNaming
\* ... and with a name about to be sanitised
InitSanitize == InitPure /\ naming \in SanitizeInputs
\* ... and with a name about to be derived
InitNaming == InitPure /\ naming \in NamingInputs

\* candidate pipeline and session registry
NextProbe ==
  \/ \E tabId \in TabIds, rawUrl \in RawURLs : SubmitCandidate(tabId, rawUrl)
  \/ \E p \in 1..MaxTasks, resp \in ProbeResponses : ProbeSettle(p, resp)
  \/ \E tabId \in TabIds : TabRemoved(tabId)
  \/ \E tabId \in TabIds, change \in UrlChanges : TabUpdated(tabId, changeInfoUrl(change))
  \/ \E tabId \in TabIds : ClearUrls(tabId)
  \/ ClearAll

\* candidate pipeline fed with URLs that do not parse
NextMalformed ==
  \/ \E tabId \in TabIds, rawUrl \in MalformedURLs : SubmitCandidate(tabId, rawUrl)
  \/ \E p \in 1..MaxTasks, resp \in ProbeResponses : ProbeSettle(p, resp)
  \/ \E tabId \in TabIds : ClearUrls(tabId)

\* session registry with its list query
NextRegistry ==
  \/ \E tabId \in TabIds, rawUrl \in RawURLs : SubmitCandidate(tabId, rawUrl)
  \/ \E p \in 1..MaxTasks, resp \in ProbeResponses : ProbeSettle(p, resp)
  \/ \E tabId \in TabIds : ClearUrls(tabId)
  \/ ClearAll
  \/ \E tabId \in TabIds : GetMediaUrls(tabId)

\* session registry with the toolbar popup looking at it
NextPopup ==
  \/ \E tabId \in TabIds, rawUrl \in RawURLs : SubmitCandidate(tabId, rawUrl)
  \/ \E p \in 1..MaxTasks, resp \in ProbeResponses : ProbeSettle(p, resp)
  \/ \E tabId \in TabIds, change \in UrlChanges : TabUpdated(tabId, changeInfoUrl(change))
  \/ \E tabId \in TabIds : ClearUrls(tabId)
  \/ \E tabId \in TabIds : PopupOpened(tabId)
  \/ PopupClosed

\* session registry fed with every kind of well-formed candidate URL
NextKeys ==
  \/ \E tabId \in TabIds, rawUrl \in RawURLs \cup TrackedURLs : SubmitCandidate(tabId, rawUrl)
  \/ \E p \in 1..MaxTasks, resp \in ProbeResponses : ProbeSettle(p, resp)
  \/ \E tabId \in TabIds : ClearUrls(tabId)
  \/ ClearAll

\* every operation of the background script, on inputs that fail. The candidate
\* pipeline and the router share no state, so a run exercises one of the two:
\* candidates that do not parse, from one tab, with the list query and the clears ...
NextCoreRegistry ==
  \/ \E rawUrl \in MalformedURLs : SubmitCandidate(1, rawUrl)
  \/ \E p \in 1..MaxTasks, resp \in ProbeResponses : ProbeSettle(p, resp)
  \/ GetMediaUrls(1)
  \/ ClearUrls(1)
  \/ ClearAll
\* ... or the router, the liveness cache and the port change
NextCoreRouter ==
  \/ \E e \in DOMAIN RouterEvents : HeadersReceived(e)
  \/ \E d \in 1..MaxDownloads : HandleStart(d)
  \/ \E filename \in SmartFilenames : SmartDownload(filename)
  \/ CheckLocalhostStatus
  \/ \E d \in 1..MaxDownloads, alive \in BOOLEAN : LivenessSettle(d, alive)
  \/ \E i \in 1..MaxStatusChecks, alive \in BOOLEAN : StatusSettle(i, alive)
  \/ \E d \in 1..MaxDownloads, ok \in BOOLEAN : ForwardSettle(d, ok)
  \/ \E d \in 1..MaxDownloads, ok \in BOOLEAN : NativeSettle(d, ok)
  \/ \E newPort \in Ports : PortChanged(newPort)
  \/ AppToggle
\* one tab's candidates, probed with every family of content type
NextValidity ==
  \/ \E rawUrl \in RawURLs : SubmitCandidate(1, rawUrl)
  \/ \E p \in 1..MaxTasks, resp \in ClassifiedResponses : ProbeSettle(p, resp)

NextCore ==
  \/ /\ decided = {} /\ downloads = <<>> /\ statusChecks = <<>>
     /\ nadekoServerPort = DefaultPort /\ ~appUp
     /\ NextCoreRegistry
  \/ /\ submitted = 0 /\ sent = <<>>
     /\ NextCoreRouter

\* download router and liveness cache
NextRouter ==
  \/ \E e \in DOMAIN RouterEvents : HeadersReceived(e)
  \/ \E d \in 1..MaxDownloads : HandleStart(d)
  \/ \E filename \in SmartFilenames : SmartDownload(filename)
  \/ CheckLocalhostStatus
  \/ \E d \in 1..MaxDownloads, alive \in BOOLEAN : LivenessSettle(d, alive)
  \/ \E i \in 1..MaxStatusChecks, alive \in BOOLEAN : StatusSettle(i, alive)
  \/ \E d \in 1..MaxDownloads, ok \in BOOLEAN : ForwardSettle(d, ok)
  \/ \E d \in 1..MaxDownloads, ok \in BOOLEAN : NativeSettle(d, ok)
  \/ Tick
  \/ AppToggle

\* liveness cache: its unforced caller (the download handler), its forced caller
\* (the status request) and the port change
NextLiveness ==
  \/ \E filename \in SmartFilenames : SmartDownload(filename)
  \/ CheckLocalhostStatus
  \/ \E d \in 1..MaxDownloads, alive \in BOOLEAN : LivenessSettle(d, alive)
  \/ \E i \in 1..MaxStatusChecks, alive \in BOOLEAN : StatusSettle(i, alive)
  \/ \E newPort \in Ports : PortChanged(newPort)
  \/ Tick
  \/ AppToggle

\* options page and the background's handling of its message, beside the
\* liveness cache's forced caller
NextSettings ==
  \/ \E input \in PortInputs, isChecked \in ShowPopupChoices, stored \in BOOLEAN :
       SaveOptions(input, isChecked, stored)
  \/ DeliverMessage
  \/ CheckLocalhostStatus
  \/ \E i \in 1..MaxStatusChecks, alive \in BOOLEAN : StatusSettle(i, alive)
  \/ \E newPort \in Ports : PortChanged(newPort)
  \/ Tick
  \/ AppToggle

\* canonicalisation on its own
NextCanon == Canonicalize
\* ... and of two URLs
NextPairs == CanonicalizePair

\* the listener's decision on one response
NextDecisions == DecideDownload

\* the sanitising of one name
NextSanitize == Sanitize

\* the deriving of one name
NextNaming == DeriveName

Next == NextProbe \/ NextMalformed \/ NextRegistry \/ NextValidity \/ NextCore \/ NextRouter \/ NextLiveness \/ NextSettings \/ NextCanon \/ NextPairs \/ NextDecisions \/ NextSanitize \/ NextNaming \/ NextKeys \/ NextPopup

Spec == Init /\ [][Next]_vars
SpecProbe == Init /\ [][NextProbe]_vars
SpecMalformed == Init /\ [][NextMalformed]_vars
SpecRegistry == Init /\ [][NextRegistry]_vars
SpecKeys == Init /\ [][NextKeys]_vars
SpecPopup == Init /\ [][NextPopup]_vars
SpecCore == Init /\ [][NextCore]_vars
SpecValidity == Init /\ [][NextValidity]_vars
SpecRouter == Init /\ [][NextRouter]_vars
SpecLiveness == Init /\ [][NextLiveness]_vars
SpecSettings == Init /\ [][NextSettings]_vars
SpecCanon == InitCanon /\ [][NextCanon]_vars
SpecPairs == InitPairs /\ [][NextPairs]_vars
SpecDecisions == InitDecisions /\ [][NextDecisions]_vars
SpecSanitize == InitSanitize /\ [][NextSanitize]_vars
SpecNaming == InitNaming /\ [][NextNaming]_vars


NoDuplicates(items) ==
  \A i, j \in 1..Len(items) : items[i].url = items[j].url => i = j
IsPrefix(a, b) == Len(a) <= Len(b) /\ SubSeq(b, 1, Len(a)) = a
Occurrences(items, url) == Cardinality({i \in 1..Len(items) : items[i].url = url})

\* C2: every session's list holds each canonical URL once, and a step in which
\* addMediaUrl calls run to their end keeps every entry already listed as it is and
\* where it is, lengthens a session's list by one when the URL of a valid candidate
\* was not in it and by nothing otherwise, after which that URL is listed once.
AddIfNewIdempotent ==
  /\ [](\A tab \in DOMAIN scrapedMediaUrls : NoDuplicates(scrapedMediaUrls[tab]))
  /\ [][completed' # <<>> =>
          /\ \A tab \in DOMAIN scrapedMediaUrls :
               /\ tab \in DOMAIN scrapedMediaUrls'
               /\ IsPrefix(scrapedMediaUrls[tab], scrapedMediaUrls'[tab])
          /\ \A tab \in DOMAIN scrapedMediaUrls' :
               LET before == IF tab \in DOMAIN scrapedMediaUrls
                             THEN scrapedMediaUrls[tab] ELSE <<>>
                   fresh == \E i \in 1..Len(completed') :
                              /\ completed'[i].tabId = tab
                              /\ completed'[i].got.valid
                              /\ ~ItemsHas(before, completed'[i].url)
               IN Len(scrapedMediaUrls'[tab]) = Len(before) + (IF fresh THEN 1 ELSE 0)
          /\ \A i \in 1..Len(completed') :
               completed'[i].got.valid =>
                 /\ completed'[i].tabId \in DOMAIN scrapedMediaUrls'
                 /\ Occurrences(scrapedMediaUrls'[completed'[i].tabId], completed'[i].url) = 1
       ]_vars

\* two candidates of one URL, awaiting one probe for the same session, ran to their
\* end in one step: the first was inserted, the second found it listed
AddIfNewIdempotentWitness ==
  /\ Len(completed) = 2
  /\ completed[1].tabId = completed[2].tabId
  /\ completed[1].outcome = "inserted"
  /\ completed[2].outcome = "duplicate"
  /\ Len(scrapedMediaUrls[completed[1].tabId]) = 1

\* the spec's fragment: video/* or audio/*, a known Content-Length under 2 MiB, no
\* manifest signature
FragmentThreshold == 2 * 1024 * 1024
IsFragment(res) ==
  /\ Truthy(res.contentType)
  /\ StartsWith(res.contentType, <<"v","i","d","e","o","/">>) \/ StartsWith(res.contentType, <<"a","u","d","i","o","/">>)
  /\ res.contentLength >= 0
  /\ res.contentLength < FragmentThreshold
  /\ ~isManifestType(res.contentType)

\* C3: a candidate whose probe reports a fragment is never inserted into a
\* session's registry.
FragmentNeverInserted ==
  \A i \in 1..Len(completed) :
    IsFragment(completed[i].got) => completed[i].outcome # "inserted"

\* C4: a candidate whose probe reports a manifest content type is a valid media
\* item with isManifest set, whatever the Content-Length: when its call has run to
\* its end the submitting session lists its URL, and an insertion it made stored
\* isManifest = TRUE.
ManifestInserted ==
  \A i \in 1..Len(completed) :
    LET c == completed[i]
    IN isManifestType(c.got.contentType) =>
         /\ c.outcome \in {"inserted", "duplicate"}
         /\ c.tabId \in DOMAIN scrapedMediaUrls
         /\ ItemsHas(scrapedMediaUrls[c.tabId], c.url)
         /\ c.outcome = "inserted" =>
              \E k \in 1..Len(scrapedMediaUrls[c.tabId]) :
                /\ scrapedMediaUrls[c.tabId][k].url = c.url
                /\ scrapedMediaUrls[c.tabId][k].isManifest

\* a manifest that states a Content-Length was inserted
ManifestInsertedWitness ==
  \E i \in 1..Len(completed) :
    /\ isManifestType(completed[i].got.contentType)
    /\ completed[i].got.contentLength >= 0
    /\ completed[i].outcome = "inserted"


\* ---------------------------------------------------- download router (SpecRouter)
\* the timer, the liveness probe (aborted after 1 s) and the POST of an
\* intercepted download each come to an end
FairRouter ==
  /\ SpecRouter
  /\ \A d \in 1..MaxDownloads :
       /\ WF_vars(HandleStart(d))
       /\ WF_vars(\E alive \in BOOLEAN : LivenessSettle(d, alive))
       /\ WF_vars(\E ok \in BOOLEAN : ForwardSettle(d, ok))

\* C5: the listener's cancel/allow answer for a response-headers event is given
\* before any follow-up of that event starts (the step that answers "cancel" leaves
\* the download scheduled, with no probe, forward or native download, and leaves the
\* liveness cache alone; every intercepted response has its answer), it is the
\* same answer whenever the same event is seen, whatever the liveness cache and the
\* companion are, and no later step takes an answer back.
DecisionBeforeFollowUp ==
  /\ [](/\ \A x, y \in decided : x[1] = y[1] => x[2] = y[2]
        /\ \A d \in 1..Len(downloads) :
             downloads[d].origin = "webRequest" => <<downloads[d].ev, TRUE>> \in decided)
  /\ [][/\ decided \subseteq decided'
        /\ decided' # decided =>
             /\ localhostStatusCache' = localhostStatusCache
             /\ statusChecks' = statusChecks
             /\ SubSeq(downloads', 1, Len(downloads)) = downloads
        /\ (Len(downloads') > Len(downloads)
            /\ downloads'[Len(downloads')].origin = "webRequest") =>
             LET dl == downloads'[Len(downloads')]
             IN /\ <<dl.ev, TRUE>> \in decided'
                /\ dl.phase = "scheduled"
                /\ ~dl.probed
                /\ dl.forward = "none"
                /\ dl.native = 0
       ]_vars

\* both events were answered, one cancelled and one allowed, and the follow-up of
\* the cancelled one has run to a forward the companion accepted
DecisionBeforeFollowUpWitness ==
  /\ <<1, TRUE>> \in decided
  /\ <<2, FALSE>> \in decided
  /\ \E d \in 1..Len(downloads) :
       downloads[d].origin = "webRequest" /\ downloads[d].phase = "forwarded"

Forwarded(dl) == dl.forward = "ok"
NativeDownload(dl) == dl.native > 0

NativeBefore(d) == IF d \in 1..Len(downloads) THEN downloads[d].native ELSE 0

\* C7 as claimed: the native download is invoked only in a step that sees the
\* forward of that download fail, or while the companion is unreachable.
NativeOnlyWhenUnreachable ==
  [][\A d \in 1..Len(downloads') :
       downloads'[d].native > NativeBefore(d) =>
         downloads'[d].forward = "failed" \/ ~appUp]_vars

\* C7, amended: the native download is invoked only in a step that sees the forward
\* of that download fail, or in which the handler's liveness check (a fresh probe,
\* or the cached value when it is under 5 s old) said the companion is not alive.
NativeOnlyAfterFailureOrDeadVerdict ==
  [][\A d \in 1..Len(downloads') :
       downloads'[d].native > NativeBefore(d) =>
         \/ downloads'[d].forward = "failed"
         \/ /\ downloads'[d].forward = "none"
            /\ downloads'[d].isAlive = "dead"
            /\ ~localhostStatusCache'.isAlive]_vars

\* the native download was invoked on a cached "not alive" while the companion was up
NativeOnlyAfterFailureOrDeadVerdictWitness ==
  /\ appUp
  /\ \E d \in 1..Len(downloads) :
       /\ downloads[d].isAlive = "dead"
       /\ ~downloads[d].probed
       /\ downloads[d].native = 1
       /\ downloads[d].forward = "none"

\* C8: a failed forward has been followed by one native download, a successful
\* forward by none, and no download has the native download invoked twice.
OneFallbackPerFailure ==
  \A d \in 1..Len(downloads) :
    /\ downloads[d].forward = "failed" => downloads[d].native = 1
    /\ downloads[d].forward = "ok" => downloads[d].native = 0
    /\ downloads[d].native <= 1

\* the forward of a smart download failed and its fallback was invoked
OneFallbackPerFailureWitness ==
  \E d \in 1..Len(downloads) :
    /\ downloads[d].origin = "message"
    /\ downloads[d].forward = "failed"
    /\ downloads[d].native = 1
    /\ downloads[d].nativeResult = "pending"

\* C9: when the forward and the fallback native download have both failed, the UI
\* has been told: a failure notification was sent or the request was answered with
\* a non-success response.
DoubleFailureSurfaced ==
  \A d \in 1..Len(downloads) :
    (downloads[d].forward = "failed" /\ downloads[d].nativeResult = "failed") =>
      downloads[d].uiFailure > 0 \/ downloads[d].response = "failure"

\* ---------------------------------------------------- liveness cache (SpecLiveness)
\* C10: an isLocalhostAlive() call made when the cache is under 5 s old issues no
\* probe, leaves the cache as it is and returns the cached isAlive; an
\* isLocalhostAlive(true) call always issues a probe.
CacheReuse ==
  /\ [](\A i \in 1..Len(statusChecks) : statusChecks[i].probing)
  /\ [][(/\ Len(downloads') > Len(downloads)
         /\ downloads'[Len(downloads')].origin = "message"
         /\ now - localhostStatusCache.lastChecked < checkInterval) =>
          /\ ~downloads'[Len(downloads')].probed
          /\ downloads'[Len(downloads')].isAlive =
               (IF localhostStatusCache.isAlive THEN "alive" ELSE "dead")
          /\ localhostStatusCache' = localhostStatusCache]_vars

\* a forced check probes although the cache was written in the same instant, after
\* an unforced call was served the cached "alive"
CacheReuseWitness ==
  /\ \E i \in 1..Len(statusChecks) :
       /\ statusChecks[i].probing
       /\ statusChecks[i].at - localhostStatusCache.lastChecked < checkInterval
  /\ \E d \in 1..Len(downloads) :
       ~downloads[d].probed /\ downloads[d].isAlive = "alive"

\* ------------------------------------------------------------------ C11
\* C11: after a port change is handled, the next liveness check, forced or not,
\* probes the new port: no check is ever answered with a verdict that was
\* probed on another port than the one configured when the check was made,
\* in every interleaving of port changes and probes in flight.
FreshProbeAfterPortChange ==
  \A d \in 1..Len(downloads) :
    downloads[d].isAlive # "unknown" => downloads[d].verdictPort = downloads[d].port

\* ------------------------------------------------------------------ C12
\* C12: the notification the options page sends after saving a valid port is one
\* the background script acts on: when the background's message listener has
\* handled it, the background uses the saved port and the liveness cache is
\* invalidated (lastChecked = 0).
SavedPortAdopted ==
  [][(inbox # <<>> /\ inbox' = Tail(inbox))
       => /\ nadekoServerPort' = Head(inbox).newPort
          /\ localhostStatusCache'.lastChecked = 0]_vars

\* ------------------------------------------------------------------ C13
\* C13: closing a tab removes that session's registry entries and leaves the
\* header probe cache as it was, and a probe is issued only for a URL the cache
\* does not hold: a later session submitting a cached URL gets the cached
\* ProbeResult without a new network probe.
ClosurePurgesOnlySession ==
  [][/\ \A t \in closedTabs' \ closedTabs :
          /\ t \notin DOMAIN scrapedMediaUrls'
          /\ mediaDetailsCache' = mediaDetailsCache
          /\ promises' = promises
     /\ \A p \in (Len(promises) + 1)..Len(promises') :
          promises'[p].url \notin DOMAIN mediaDetailsCache
     /\ \A i \in 1..Len(completed') :
          /\ promises'[completed'[i].promise].settled
          /\ completed'[i].got = promises'[completed'[i].promise].result]_vars

\* tab 1 was closed, and afterwards tab 2 submitted the URL probed before: it was
\* served the one probe's result and got its entry
ClosurePurgesOnlySessionWitness ==
  /\ closedTabs = {1}
  /\ submitted = 2
  /\ Len(promises) = 1
  /\ promises[1].url \in DOMAIN mediaDetailsCache
  /\ Len(completed) = 1
  /\ completed[1].tabId = 2
  /\ completed[1].outcome = "inserted"
  /\ completed[1].got = promises[1].result
  /\ 1 \notin DOMAIN scrapedMediaUrls

\* ------------------------------------------------------------------ C14
\* C14: once a tab has been closed its session stays destroyed: the registry
\* never holds an entry under a closed tab's id, also when a candidate
\* submitted before the closure has its probe complete after it.
ClosedSessionStaysDestroyed ==
  \A t \in closedTabs : t \notin DOMAIN scrapedMediaUrls

\* ------------------------------------------------------------------ C15
\* C15: a URL change of a tab within its document (fragment or history state)
\* does not purge the tab's session.
SameDocumentChangeKeepsSession ==
  [][\A t \in TabIds :
       TabUpdated(t, changeInfoUrl("sameDocument")) => scrapedMediaUrls' = scrapedMediaUrls]_vars

\* ------------------------------------------------------------------ C16
\* C16: no operation of the session registry removes or changes an entry of the
\* header probe cache: every URL the cache holds stays held, by the same probe,
\* and a settled probe keeps its result.
RegistryKeepsProbeCache ==
  [][\A u \in DOMAIN mediaDetailsCache :
       /\ u \in DOMAIN mediaDetailsCache'
       /\ mediaDetailsCache'[u] = mediaDetailsCache[u]
       /\ promises[mediaDetailsCache[u]].settled
            => promises'[mediaDetailsCache[u]] = promises[mediaDetailsCache[u]]]_vars

\* ------------------------------------------------------------------ C17
\* C17: once the probe of a URL has resolved to valid: false, and until the
\* cache is cleared, the cache keeps that result, no new probe is issued for
\* the URL, and every later request for it is answered at once with the cached
\* negative result and dropped.
NegativeResultCached ==
  [][\A p \in 1..Len(promises) :
       (promises[p].settled /\ ~promises[p].result.valid /\ ~promises'[p].evicted)
         => /\ promises'[p] = promises[p]
            /\ promises[p].url \in DOMAIN mediaDetailsCache'
            /\ mediaDetailsCache'[promises[p].url] = p
            /\ \A q \in (Len(promises) + 1)..Len(promises') :
                 promises'[q].url # promises[p].url
            /\ \A i \in 1..Len(tasks') : tasks'[i].promise # p
            /\ \A i \in 1..Len(completed') :
                 completed'[i].promise = p
                   => /\ completed'[i].got = promises[p].result
                      /\ completed'[i].outcome = "rejected"]_vars

\* a URL whose probe had resolved to valid: false was requested again: one probe
\* in all, and the second request was answered with the cached result
NegativeResultCachedWitness ==
  /\ submitted = 2
  /\ Len(promises) = 1
  /\ promises[1].settled /\ ~promises[1].result.valid /\ ~promises[1].evicted
  /\ tasks = <<>>
  /\ Len(completed) = 1
  /\ completed[1].promise = 1
  /\ completed[1].outcome = "rejected"

\* ------------------------------------------------------------------ C18
\* the fetch of a header probe settles, or its 2 s timer aborts it
FairProbe ==
  SpecProbe /\ \A p \in 1..MaxTasks : WF_vars(\E resp \in ProbeResponses : ProbeSettle(p, resp))

\* a HEAD request that threw (network failure, abort at 2 s) or came back as an
\* error-type response
FailedResponses == {resp \in ProbeResponses : resp.kind \in {"thrown", "error"}}

\* C18: a header probe always resolves, and never with an error: when its
\* request times out, fails or comes back as an error-type response it resolves
\* to {valid: false, contentType: null, contentDisposition: null, contentLength:
\* null}, and the candidates waiting for it are dropped with the registry
\* unchanged and nothing announced.
ProbeErrorsAbsorbed ==
  /\ \A p \in 1..MaxTasks :
       [](p <= Len(promises) => <>(p <= Len(promises) /\ promises[p].settled))
  /\ [][\A p \in 1..Len(promises), resp \in FailedResponses :
          ProbeSettle(p, resp)
            => /\ promises'[p].settled
               /\ promises'[p].result =
                    [valid |-> FALSE, contentType |-> Null, contentDisposition |-> Null,
                     contentLength |-> NoLength]
               /\ scrapedMediaUrls' = scrapedMediaUrls
               /\ sent' = <<>>
               /\ \A i \in 1..Len(completed') : completed'[i].outcome = "rejected"]_vars

\* two candidates waited for one probe, the probe failed, and both were dropped:
\* nothing is in the registry
ProbeErrorsAbsorbedWitness ==
  /\ Len(promises) = 1
  /\ promises[1].settled
  /\ promises[1].result = InvalidResult
  /\ Len(completed) = 2
  /\ \A i \in 1..2 : completed[i].outcome = "rejected" /\ completed[i].promise = 1
  /\ scrapedMediaUrls = EmptyMap

\* ------------------------------------------------------------------ C19
\* the entries of session t in a registry (none when the session does not exist)
Session(reg, t) == IF t \in DOMAIN reg THEN reg[t] ELSE <<>>

\* C19: sessions never interfere. Closing tab s, clearing session s and a
\* navigation of tab s leave the entries of every other session unchanged, and
\* the entries of a session change only by one of these on that very session,
\* by an insertion into that very session, or by the registry's clearAll.
SessionsIsolated ==
  [][/\ \A s \in TabIds :
          (s \in closedTabs' \ closedTabs \/ ClearUrls(s) \/ TabUpdated(s, TRUE))
            => \A t \in TabIds \ {s} :
                 Session(scrapedMediaUrls', t) = Session(scrapedMediaUrls, t)
     /\ \A t \in TabIds :
          Session(scrapedMediaUrls', t) # Session(scrapedMediaUrls, t)
            => \/ t \in closedTabs' \ closedTabs
               \/ ClearUrls(t)
               \/ TabUpdated(t, TRUE)
               \/ ClearAll
               \/ /\ \E i \in 1..Len(completed') :
                       completed'[i].tabId = t /\ completed'[i].outcome = "inserted"
                  /\ \A i \in 1..Len(Session(scrapedMediaUrls, t)) :
                       Session(scrapedMediaUrls', t)[i] = Session(scrapedMediaUrls, t)[i]]_vars

\* session 1 has just been cleared while session 2 held an entry, which it still
\* holds
SessionsIsolatedWitness ==
  /\ sent = <<[type |-> "closeAllPopups", tabId |-> 1, url |-> <<>>]>>
  /\ 1 \notin DOMAIN scrapedMediaUrls
  /\ 2 \in DOMAIN scrapedMediaUrls
  /\ Len(scrapedMediaUrls[2]) >= 1

\* ------------------------------------------------------------------ C20
\* C20: canonicalisation is idempotent: canonicalising a canonicalised URL
\* gives it back unchanged, for well-formed and malformed URLs alike.
CanonicalizeIdempotent ==
  [][canon.passes >= 1 => canon'.url = canon.url]_vars

\* a URL that the first canonicalisation reordered, stripped and re-escaped has
\* been canonicalised a second time; and a malformed one too
CanonicalizeIdempotentWitness ==
  /\ canon.passes = 2
  /\ canon.input = <<"H","T","T","P","S",":","/","/","H","/","p","?","a","=","%","2","5","4","1","&","a","=","+","x","#","f">>
  /\ canon.url = <<"h","t","t","p","s",":","/","/","h","/","p","?","a","=","+","x","&","a","=","%","2","5","4","1","#","f">>

\* ------------------------------------------------------------------ C21
\* C21: two URLs that new URL accepts and that differ only in the presence or the
\* values of their bytestart / byteend parameters canonicalise to the same
\* string, the key of the probe cache and of the registry.
ByteRangeVariantsAgree ==
  (/\ pair.done
   /\ ParseURL(pair.base.head).ok
   /\ WithoutRange(pair.first) = WithoutRange(pair.second))
  => pair.outFirst = pair.outSecond

\* a URL with both byte-range parameters around another parameter, and the URL
\* without them, have been canonicalised
ByteRangeVariantsAgreeWitness ==
  /\ pair.done
  /\ pair.base.head = <<"h","t","t","p","s",":","/","/","h","/","a",".","m","p","4">>
  /\ pair.first = <<<<"b","y","t","e","s","t","a","r","t","=","5">>, <<"a","=","1">>, <<"b","y","t","e","e","n","d","=","9">>>>
  /\ pair.second = <<<<"a","=","1">>>>
  /\ pair.outFirst = <<"h","t","t","p","s",":","/","/","h","/","a",".","m","p","4","?","a","=","1">>
  /\ pair.outSecond = <<"h","t","t","p","s",":","/","/","h","/","a",".","m","p","4","?","a","=","1">>

\* ------------------------------------------------------------------ C22
\* C22: two URLs with the same origin and path and the same query parameters in
\* a different order canonicalise to the same string.
OrderIndependent ==
  (/\ pair.done
   /\ ParseURL(pair.base.head).ok
   /\ SamePieces(pair.first, pair.second))
  => pair.outFirst = pair.outSecond

\* ------------------------------------------------------------------ C23
\* C23: a URL that cannot be parsed is canonicalised to itself, and its submission
\* goes on with that string: it is probed under it, classified, and ends rejected,
\* suppressed as a duplicate or inserted under it with the placeholder file name
\* of deriveFilename, in the turn in which its probe settles; no other end exists.
MalformedOutcomes ==
  /\ \A p \in 1..Len(promises) : promises[p].url \in MalformedURLs
  \* a submission waits only while its probe is outstanding
  /\ \A i \in 1..Len(tasks) : ~promises[tasks[i].promise].settled
  /\ \A i \in 1..Len(completed) :
       /\ completed[i].url \in MalformedURLs
       /\ completed[i].outcome \in {"inserted", "rejected", "duplicate"}
  /\ \A t \in DOMAIN scrapedMediaUrls : \A k \in 1..Len(scrapedMediaUrls[t]) :
       /\ scrapedMediaUrls[t][k].url \in MalformedURLs
       /\ StartsWith(scrapedMediaUrls[t][k].filename, <<"u","n","k","n","o","w","n","_","f","i","l","e">>)
MalformedPassesThrough ==
  /\ [][\A tabId \in TabIds, raw \in MalformedURLs :
          SubmitCandidate(tabId, raw) =>
            \/ /\ Len(tasks') = Len(tasks) + 1
               /\ tasks'[Len(tasks')].url = raw
               /\ tasks'[Len(tasks')].tabId = tabId
               /\ promises'[tasks'[Len(tasks')].promise].url = raw
            \/ /\ Len(completed') = 1
               /\ completed'[1].url = raw
               /\ completed'[1].tabId = tabId]_vars
  /\ []MalformedOutcomes

\* a relative reference has been probed as it came and inserted under that string
MalformedPassesThroughWitness ==
  /\ 1 \in DOMAIN scrapedMediaUrls
  /\ Len(scrapedMediaUrls[1]) = 1
  /\ scrapedMediaUrls[1][1].url = <<"h","/","a",".","m","p","4","?","b","y","t","e","s","t","a","r","t","=","0">>
  /\ scrapedMediaUrls[1][1].filename = <<"u","n","k","n","o","w","n","_","f","i","l","e",".","m","p","4">>
  /\ Len(completed) = 1 /\ completed[1].outcome = "inserted"

\* ------------------------------------------------------------------ C24
\* C24: the urlAdded messages of a step are, in order, one for each insertion of
\* that step, each carrying the tab id and the media item now in that tab's
\* session; a rejected or duplicate submission sends none; and the insertion
\* stands whether or not a popup was there to receive the message.
InsertionEvents ==
  LET ins == SelectSeq(completed, LAMBDA c : c.outcome = "inserted")
      ev == SelectSeq(sent, LAMBDA m : m.type = "urlAdded")
  IN /\ Len(ev) = Len(ins)
     /\ \A i \in 1..Len(ev) :
          /\ ev[i].tabId = ins[i].tabId
          /\ ev[i].mediaItem.url = ins[i].url
          /\ ev[i].mediaItem.validMedia
          /\ ev[i].tabId \in DOMAIN scrapedMediaUrls
          /\ \E k \in 1..Len(scrapedMediaUrls[ev[i].tabId]) :
               scrapedMediaUrls[ev[i].tabId][k] = ev[i].mediaItem

\* two submissions of one URL by one tab ended in one step, the first inserted and
\* the second suppressed, with one urlAdded message that no popup received
InsertionEventsWitness ==
  /\ Len(completed) = 2
  /\ completed[1].outcome = "inserted"
  /\ completed[2].outcome = "duplicate"
  /\ Len(SelectSeq(sent, LAMBDA m : m.type = "urlAdded")) = 1
  /\ \E i \in 1..Len(sent) : sent[i].type = "urlAdded" /\ ~sent[i].delivered

\* ------------------------------------------------------------------ C25
\* C25: downloadHandledByNadeko has been sent for an intercepted download exactly
\* when its POST to the companion succeeded, once, and never for a download that
\* was handed to browser.downloads.download.
HandledEventOnlyOnForward ==
  \A d \in 1..Len(downloads) :
    /\ downloads[d].handled = (IF downloads[d].forward = "ok" THEN 1 ELSE 0)
    /\ downloads[d].native > 0 => downloads[d].handled = 0

\* a download of the webRequest listener was forwarded and announced as handled
HandledEventOnlyOnForwardWitness ==
  /\ Len(downloads) = 1
  /\ downloads[1].origin = "webRequest"
  /\ downloads[1].phase = "forwarded"
  /\ downloads[1].handled = 1
  /\ downloads[1].native = 0

\* ------------------------------------------------------------------ C26
\* C26: a session that exists after a step is the session before it followed by
\* the items the step inserted for that tab, in the order of their insertion:
\* the item first accepted for a URL keeps its fields and its place until the
\* session is purged. The list query answers with exactly that sequence.
ListInInsertionOrder ==
  /\ [][\A t \in DOMAIN scrapedMediaUrls' :
          LET ins == SelectSeq(completed', LAMBDA c : c.tabId = t /\ c.outcome = "inserted")
          IN scrapedMediaUrls'[t]
               = Session(scrapedMediaUrls, t)
                 \o [i \in 1..Len(ins) |-> getMediaDetails(ins[i].url, ins[i].got)]]_vars
  /\ [](\A i \in 1..Len(sent) :
          sent[i].type = "mediaItems"
            => sent[i].mediaItems = Session(scrapedMediaUrls, sent[i].tabId))

\* a second probe of a URL already listed came back as a manifest; the submission
\* was suppressed and the session still lists the item accepted first, a video
ListInInsertionOrderWitness ==
  /\ Len(completed) = 1
  /\ completed[1].outcome = "duplicate"
  /\ completed[1].tabId = 1
  /\ isManifestType(completed[1].got.contentType)
  /\ Len(scrapedMediaUrls[1]) = 1
  /\ scrapedMediaUrls[1][1].url = completed[1].url
  /\ ~scrapedMediaUrls[1][1].isManifest

\* ------------------------------------------------------------------ C27
\* C27: no operation throws to its caller. Whatever the input (a URL that does
\* not parse, a probe that fails, a response without headers, a companion that
\* is down, a native download that is refused), a submission ends inserted,
\* rejected or suppressed, a settled probe holds a result with a boolean
\* verdict, a list query is answered with a list, a response event is decided,
\* a follow-up is in one of its defined phases and a failed POST has fallen
\* back to the native download, and the liveness cache holds a boolean.
DefinedPhases ==
  {"scheduled", "checking", "forwarding", "native", "forwarded", "nativeDone", "nativeFailed"}
ManifestAlwaysCancelled ==
  /\ decision.done
  /\ decision.type \in downloadRelevantTypes
  /\ isManifestType(decision.contentType)
  => decision.cancel

\* ------------------------------------------------------------------ C29
\* C29: the listener's decision follows the precedence: no response of a
\* resource type other than main_frame, sub_frame and other is cancelled; among
\* those three, a disposition containing "attachment" cancels; else a content
\* type of the downloadable list cancels exactly when the disposition does not
\* say inline; else a video/* or audio/* type cancels in main_frame without an
\* inline disposition, and, when it is no manifest, not otherwise.
SaysAttachment(cd) == Truthy(cd) /\ Includes(ToLower(cd), <<"a","t","t","a","c","h","m","e","n","t">>)
SaysInline(cd) == Truthy(cd) /\ Includes(ToLower(cd), <<"i","n","l","i","n","e">>)
KnownDownloadable(ct) == Truthy(ct) /\ ToLower(ct) \in downloadableContentTypes
VideoOrAudio(ct) ==
  Truthy(ct) /\ (StartsWith(ct, <<"v","i","d","e","o","/">>) \/ StartsWith(ct, <<"a","u","d","i","o","/">>))
MediaBearing(contentType) ==
  /\ contentType # Null
  /\ \/ StartsWith(contentType, <<"v","i","d","e","o","/">>)
     \/ StartsWith(contentType, <<"a","u","d","i","o","/">>)
     \/ StartsWith(contentType, <<"i","m","a","g","e","/","g","i","f">>)
     \/ isManifestType(contentType)
     \/ Includes(contentType, <<"a","p","p","l","i","c","a","t","i","o","n","/","o","c","t","e","t","-","s","t","r","e","a","m">>)
WrittenBy(at, cache) ==
  /\ cache.lastChecked = at
  /\ \A t \in {at, at + TickStep} : ServeFromCache(FALSE, t, cache)
EveryProbeWritesCache ==
  [][/\ \A d \in 1..Len(downloads) :
          downloads[d].phase = "checking" /\ downloads'[d].phase # "checking"
            => /\ WrittenBy(downloads[d].checkStartedAt, localhostStatusCache')
               /\ localhostStatusCache'.isAlive = (downloads'[d].isAlive = "alive")
               /\ localhostStatusCache'.isAlive => appUp
     /\ Len(statusChecks') < Len(statusChecks)
          => \E i \in 1..Len(statusChecks) :
               /\ statusChecks' = SubSeq(statusChecks, 1, i - 1)
                                    \o SubSeq(statusChecks, i + 1, Len(statusChecks))
               /\ statusChecks[i].probing
                    => /\ WrittenBy(statusChecks[i].at, localhostStatusCache')
                       /\ localhostStatusCache'.isAlive => appUp]_vars

\* a forced probe failed after an earlier probe had found the companion alive:
\* the cache holds the failure and the time of the failed call
EveryProbeWritesCacheWitness ==
  /\ statusChecks = <<>>
  /\ \E d \in 1..Len(downloads) : downloads[d].probed /\ downloads[d].isAlive = "alive"
  /\ ~localhostStatusCache.isAlive
  /\ localhostStatusCache.lastChecked > StartTime

\* ------------------------------------------------------------------ C32
\* the name has an extension for the code: a dot that is not its first character
HasExtension(raw) == LastIndexOf(raw, ".") > 1
ExtensionPart(raw) == SubSeq(raw, LastIndexOf(raw, "."), Len(raw))
NamePart(raw) == SubSeq(raw, 1, LastIndexOf(raw, ".") - 1)
EndsWith(s, suffix) ==
  Len(s) >= Len(suffix) /\ SubSeq(s, Len(s) - Len(suffix) + 1, Len(s)) = suffix
\* C32 as stated: the sanitised name never exceeds 200 characters, and every
\* name longer than 200 characters that has an extension sanitises to exactly
\* 200 characters that end with the original extension.
LongNameCutToExactly200 ==
  naming.done /\ "raw" \in DOMAIN naming =>
    /\ Len(naming.out) <= 200
    /\ Len(naming.raw) > 200 /\ HasExtension(naming.raw)
         => /\ Len(naming.out) = 200
            /\ EndsWith(naming.out, ExtensionPart(naming.raw))

\* C32: the sanitised name never exceeds 200 characters, and a name longer than
\* 200 characters sanitises to exactly 200 characters that end with the original
\* extension when that extension is shorter than 200 characters and the name
\* part neither starts nor ends with a dot or a space (which the cleaning
\* removes before the length is measured).
NothingToStrip(name) ==
  /\ Len(name) > 0
  /\ name[1] \notin {".", " "}
  /\ name[Len(name)] \notin {".", " "}
LongNameKeepsExtension ==
  naming.done /\ "raw" \in DOMAIN naming =>
    /\ Len(naming.out) <= MAX_LENGTH
    /\ /\ Len(naming.raw) > MAX_LENGTH
       /\ HasExtension(naming.raw)
       /\ Len(ExtensionPart(naming.raw)) < MAX_LENGTH
       /\ NothingToStrip(NamePart(naming.raw))
       => /\ Len(naming.out) = MAX_LENGTH
          /\ EndsWith(naming.out, ExtensionPart(naming.raw))

\* a name of 250 characters ending in .mp4 came out as 200 characters ending in .mp4
LongNameKeepsExtensionWitness ==
  /\ naming.done
  /\ "raw" \in DOMAIN naming
  /\ Len(naming.raw) = 250
  /\ EndsWith(naming.raw, <<".","m","p","4">>)
  /\ Len(naming.out) = 200
  /\ EndsWith(naming.out, <<".","m","p","4">>)


\* ================================================== claim C33
\* the name a given starting name ends as: the extension rule, then the cleaning
FinishedName(name, url, contentType) ==
  sanitizeFilenameCharacters(WithExtension(name, ExtensionOf(url, contentType)))

\* C33: deriveFilename takes the name from the filename or filename* parameter of
\* the Content-Disposition when there is one, and otherwise from the last path
\* segment of the URL without its query and fragment: the name returned is what
\* the parameter's value, or else the segment, becomes under the extension rule
\* and the cleaning.
NameFromParameterElseSegment ==
  (naming.done /\ "url" \in DOMAIN naming) =>
     /\ Len(naming.parameter) > 0 =>
          naming.out = FinishedName(naming.parameter, naming.url, naming.contentType)
     /\ (Len(naming.parameter) = 0 /\ Len(naming.segment) > 0) =>
          naming.out = FinishedName(naming.segment, naming.url, naming.contentType)


\* ================================================== claim C34
\* the name deriveFilename starts from, before the extension rule
StartingName(contentDisposition, url) ==
  IF Len(NameFromDisposition(contentDisposition)) > 0
  THEN NameFromDisposition(contentDisposition)
  ELSE NameFromURL(url)
\* the text after the last dot of a name, empty when it has no dot
CurrentExtension(name) ==
  IF LastIndexOf(name, ".") = 0 THEN <<>>
  ELSE SubSeq(name, LastIndexOf(name, ".") + 1, Len(name))
\* what the extension rule has to do with a starting name
MustAppend(name, derived) ==
  /\ ToLower(CurrentExtension(name)) # derived
  /\ ToLower(CurrentExtension(name)) \notin mediaExtensions
ExtensionRuleOn(out, name, derived) ==
  /\ (Len(derived) > 0 /\ MustAppend(name, derived)) =>
        out = sanitizeFilenameCharacters(name \o <<".">> \o derived)
  /\ (Len(derived) = 0 \/ ~MustAppend(name, derived)) =>
        out = sanitizeFilenameCharacters(name)
  /\ ToLower(CurrentExtension(name)) \in mediaExtensions =>
        EndsWith(out, <<".">> \o CurrentExtension(name))

\* C34: deriveFilename appends the extension derived from the content type exactly
\* when the name's current extension differs from it (letter case aside) and is
\* not a recognised media extension; a name that already carries a recognised
\* media extension is returned with that extension unchanged.
ExtensionAppendedIffNeeded ==
  (naming.done /\ "url" \in DOMAIN naming) =>
     ExtensionRuleOn(naming.out,
                     StartingName(naming.contentDisposition, naming.url),
                     ExtensionOf(naming.url, naming.contentType))
\* a name with a recognised media extension met a content type that derives another
\* extension, and came back as it was
ExtensionAppendedIffNeededWitness ==
  /\ naming.done /\ "url" \in DOMAIN naming
  /\ Len(ExtensionOf(naming.url, naming.contentType)) > 0
  /\ ToLower(CurrentExtension(StartingName(naming.contentDisposition, naming.url)))
        \in mediaExtensions
  /\ ToLower(CurrentExtension(StartingName(naming.contentDisposition, naming.url)))
        # ExtensionOf(naming.url, naming.contentType)
  /\ naming.out = StartingName(naming.contentDisposition, naming.url)


\* ================================================== claim C35
\* C35: after a tab has navigated to a new top-level document, its session holds no
\* item whose candidate was submitted before the navigation, also when the
\* candidate's probe completes after the purge: no call made before a URL change
\* of its tab ends by inserting its item.
NoItemFromBeforeNavigation ==
  \A i \in 1..Len(completed) :
    completed[i].outcome = "inserted" => ~completed[i].navigated


\* ================================================== claim C36
\* C36: at most one network probe is in flight per canonical URL, also when the
\* probe cache is cleared (clearUrls without a tabId) while a probe of the URL is
\* outstanding and the URL is submitted again.
OneProbeInFlightPerURL ==
  \A p, q \in 1..Len(promises) :
    (promises[p].url = promises[q].url /\ ~promises[p].settled /\ ~promises[q].settled)
      => p = q


\* ================================================== claim C37
\* C37: the response to an initiateSmartDownload request says success only once
\* the download has been handed over (the forward to the companion succeeded, or
\* the native download was accepted), and says failure when both the forward and
\* the native download failed.
SuccessOnlyAfterHandOver ==
  \A d \in 1..Len(downloads) :
    downloads[d].origin = "message" =>
      /\ downloads[d].response = "success" =>
           (downloads[d].forward = "ok" \/ downloads[d].nativeResult = "ok")
      /\ (downloads[d].forward = "failed" /\ downloads[d].nativeResult = "failed") =>
           downloads[d].response = "failure"


\* ================================================== claim C38
\* C38: when liveness checks overlap, the cache ends with the result and the time
\* of the probe that started last: apart from the reset of a port change, no step
\* takes lastChecked back, so a probe that started earlier and finishes late does
\* not overwrite the result of a later one.
LastCheckedNeverDecreases ==
  [][nadekoServerPort' = nadekoServerPort =>
       localhostStatusCache'.lastChecked >= localhostStatusCache.lastChecked]_vars


\* ================================================== claim C39
\* the keys the candidates of the model can be stored under, each with what
\* canonicalising it again gives and the names of its query parameters
CanonicalKeys == {canonicalUrls[u] : u \in RawURLs \cup TrackedURLs}
ParamNames(params) == {params[i][1] : i \in 1..Len(params)}
keyFacts ==
  [k \in CanonicalKeys |->
     [again |-> modifyParams(k),
      names |-> ParamNames(searchParams(ParseURL(k).query))]]
DroppedNames == {<<"b","y","t","e","s","t","a","r","t">>, <<"b","y","t","e","e","n","d">>, <<"_","n","c","_","c","a","t">>}
CanonicalKey(k) ==
  /\ k \in DOMAIN keyFacts
  /\ keyFacts[k].again = k
  /\ keyFacts[k].names \cap DroppedNames = {}

\* C39: every registry entry is keyed by the url of the item it stores (a session
\* holds one entry per url), and that key is canonical: canonicalising it again
\* gives the key itself, and it has no bytestart, byteend or _nc_cat parameter.
RegistryKeysCanonical ==
  \A t \in DOMAIN scrapedMediaUrls :
    \A i \in 1..Len(scrapedMediaUrls[t]) :
      /\ CanonicalKey(scrapedMediaUrls[t][i].url)
      /\ \A j \in 1..Len(scrapedMediaUrls[t]) :
           scrapedMediaUrls[t][j].url = scrapedMediaUrls[t][i].url => j = i
\* a session holds two entries, one of them for the candidate that came with a
\* tracking parameter and a byte range
RegistryKeysCanonicalWitness ==
  \E t \in DOMAIN scrapedMediaUrls :
    /\ Len(scrapedMediaUrls[t]) = 2
    /\ \E u \in TrackedURLs : ItemsHas(scrapedMediaUrls[t], canonicalUrls[u])
    /\ \A u \in TrackedURLs : ~ItemsHas(scrapedMediaUrls[t], u)


\* ================================================== claim C40
\* the urls the popup displays, and those of the registry for a tab
DisplayedURLs == {popup.display[i] : i \in 1..Len(popup.display)}
RegistryURLs(tabId) ==
  IF tabId \in DOMAIN scrapedMediaUrls
  THEN {scrapedMediaUrls[tabId][i].url : i \in 1..Len(scrapedMediaUrls[tabId])}
  ELSE {}

\* C40: while the toolbar popup is open for a tab and no message is in flight, the
\* set of URLs it displays is the set of URLs of the registry for that tab: what is
\* inserted for the tab gets displayed, and what a clear or a navigation purges
\* leaves the display. (A message is delivered within the step that sends it, so
\* none is in flight between two steps.)
PopupShowsRegistry ==
  popup.open => DisplayedURLs = RegistryURLs(popup.tabId)

====
